---- MODULE Spec2Model ----
(***************************************************************************)
(* The encrypted entry store of the journal (services/dbService.ts), its   *)
(* crypto codec (services/cryptoService.ts), the passcode gate             *)
(* (hooks/useSecurity.ts) and the settings flows that drive the bulk       *)
(* migrations (components/SettingsModal.tsx).                               *)
(*                                                                         *)
(* JavaScript objects are functions from property names to values; a       *)
(* property whose value is undefined is a property outside the DOMAIN.     *)
(* An optional value (Blob | undefined) is a sequence of length 0 or 1.    *)
(***************************************************************************)
EXTENDS Integers, Sequences, FiniteSets, TLC

\* ------------------------------------------------------------------ bounds
MaxEntries == 2
MaxIv == 1
MaxSalt == 1
MaxCalls == 3

Ids == 1..MaxEntries
IVs == 1..MaxIv
Salts == 1..MaxSalt
Codes == {"1234", "9999"}

None == << >>
Some(x) == << x >>

\* ------------------------------------------------------- types (types.ts)
EnvelopeFields == {"id", "createdAt", "isProcessing"}
SensitiveFields ==
  {"transcription", "summary", "title", "mood", "tags", "insights",
   "location", "prompt", "inputType"}
\* every non-attachment field of JournalEntry
EntryFields == EnvelopeFields \cup {"duration"} \cup SensitiveFields

\* the order in which saveEntry lists the sensitive properties
SensitiveOrder ==
  << "transcription", "summary", "title", "mood", "tags", "insights",
     "location", "prompt", "inputType" >>

Has(o, f) == f \in DOMAIN o
\* a.f === b.f, with undefined for a missing property
FieldEq(a, b, f) == /\ Has(a, f) <=> Has(b, f)
                    /\ Has(a, f) => a[f] = b[f]
\* { ...a, ...b }
Spread(a, b) ==
  [f \in DOMAIN a \cup DOMAIN b |-> IF f \in DOMAIN b THEN b[f] ELSE a[f]]
\* the properties of o that are in S
Pick(o, S) == [f \in DOMAIN o \cap S |-> o[f]]

\* ------------------------------------------------ cryptoService.ts (codec)
NoKey == << >>
\* PBKDF2 is deterministic in (passcode, salt)
deriveKey(code, salt) == << code, salt >>
Keys == { deriveKey(c, s) : c \in Codes, s \in Salts }

\* SHA-256 of code + salt, as handleUnlock and updatePasscodeConfig compute it
Validator(code, salt) == << "sha256", code, salt >>

\* JSON.stringify of an object: its defined properties, in property order
RECURSIVE StringifyFrom(_, _, _)
StringifyFrom(o, order, n) ==
  IF n > Len(order) THEN << >>
  ELSE (IF Has(o, order[n]) THEN << << order[n], o[order[n]] >> >> ELSE << >>)
       \o StringifyFrom(o, order, n + 1)
\* a variant that writes the title alone
StringifyTitleOnly(o) == StringifyFrom(o, << "title" >>, 1)
Stringify(o) == StringifyFrom(o, SensitiveOrder, 1)
\* JSON.parse of such a text
Parse(s) ==
  [f \in { s[n][1] : n \in DOMAIN s } |->
     s[CHOOSE n \in DOMAIN s : s[n][1] = f][2]]

\* AES-GCM: the ciphertext with its tag opens only under the key and the iv
\* that sealed it, and only if no byte of it changed.
Seal(key, iv, plain) == [k |-> key, n |-> iv, pt |-> plain, ok |-> TRUE]
Opens(key, iv, box) == box.ok /\ box.k = key /\ box.n = iv /\ key # NoKey

\* encryptData with the iv that getRandomValues drew
encryptData(key, data, iv) ==
  [iv |-> iv, content |-> Seal(key, iv, Stringify(data))]
\* a variant of the tag check that does not depend on the key
decryptFailsIgnoringKey(key, iv, content) == ~(content.ok /\ content.n = iv)
decryptFails(key, iv, content) == ~Opens(key, iv, content)
decryptData(key, iv, content) == Parse(content.pt)

encryptBuffer(key, buffer, iv) ==
  [iv |-> iv, content |-> Seal(key, iv, buffer)]
decryptBuffer(key, iv, content) == content.pt

\* ------------------------------------------------------------ sample data
\* Blobs as the recorder, the file picker and the image generator hand them
\* over: bytes and a MIME type, which a File of unknown kind leaves empty.
Blob(data, type) == [data |-> data, type |-> type]
AudioSample == Blob("a", "audio/webm")
SnapshotSample == Blob("s", "")
ArtSample == Blob("g", "image/png")
IdentitySample == Blob("me", "image/jpeg")

\* Journal entries as processNewEntry builds them (hooks/useJournalEntries.ts):
\* the temporary entry while the analysis runs, the analysed entry after it
\* (with its date edited, as the entry card's updateField allows).
TempEntry(id) ==
  [id |-> id, createdAt |-> id, duration |-> 7,
   transcription |-> "Transcribing your memory...", title |-> "Analyzing...",
   mood |-> "...", tags |-> << >>, insights |-> << >>,
   isProcessing |-> TRUE, inputType |-> "audio"]
FinalEntry(id) ==
  [id |-> id, createdAt |-> MaxEntries + 1 - id, duration |-> 7,
   transcription |-> "walked by the sea", summary |-> "a walk",
   title |-> "Sea", mood |-> "calm", tags |-> << "sea" >>,
   insights |-> << [type |-> "memory", title |-> "tide", content |-> "c"] >>,
   isProcessing |-> FALSE, inputType |-> "audio",
   location |-> [latitude |-> 1, longitude |-> 2, name |-> "pier"],
   prompt |-> "what did you see"]
EntryInputs == { TempEntry(i) : i \in Ids } \cup { FinalEntry(i) : i \in Ids }

\* --------------------------------------------------- dbService.ts: rows
\* The key of an image row: `${id}_snapshot`, `${id}_art`, IDENTITY_KEY.
ImageKey(id, kind) == << id, kind >>
IDENTITY_KEY == << 0, "user_identity_selfie" >>
ImageKinds == {"snapshot", "art"}

\* A row of the audio or image store is a Blob or the encrypted wrapper.
IsBlob(row) == ~Has(row, "isEncrypted")
EncRow(enc, type) ==
  [iv |-> enc.iv, data |-> enc.content, type |-> type, isEncrypted |-> TRUE]
OrDefault(type, default) == IF type = "" THEN default ELSE type

\* a variant of the read that hands out the stored row when no key is active
ReadBlobRowRaw(store, k, key, default) ==
  IF k \notin DOMAIN store THEN None
  ELSE LET result == store[k] IN
       IF ~IsBlob(result) /\ key # NoKey
       THEN IF decryptFails(key, result.iv, result.data) THEN None
            ELSE Some(Blob(decryptBuffer(key, result.iv, result.data),
                           OrDefault(result.type, default)))
       ELSE Some(result)
\* request.onsuccess of getEntryAudio, getEntryImage and getUserIdentityImage:
\* the row read and the key read happen in the same task.
ReadBlobRow(store, k, key, default) ==
  IF k \notin DOMAIN store THEN None
  ELSE LET result == store[k] IN
       IF ~IsBlob(result)
       THEN IF key # NoKey
            THEN IF decryptFails(key, result.iv, result.data) THEN None
                 ELSE Some(Blob(decryptBuffer(key, result.iv, result.data),
                                OrDefault(result.type, default)))
            ELSE None
       ELSE Some(result)
getEntryAudio(store, id, key) == ReadBlobRow(store, id, key, "audio/webm")
getEntryImage(store, id, kind, key) ==
  ReadBlobRow(store, ImageKey(id, kind), key, "image/jpeg")
getUserIdentityImage(store, key) ==
  ReadBlobRow(store, IDENTITY_KEY, key, "image/jpeg")

\* ------------------------------------------- dbService.ts: getAllEntries
IsEncryptedRecord(item) == Has(item, "isEncrypted") /\ item.isEncrypted
LockedMemory ==
  [title |-> "Locked Memory",
   transcription |-> "Decryption failed. Please check your passcode.",
   tags |-> << >>, insights |-> << >>, mood |-> "Locked"]
EncryptedEntry(item) ==
  Spread(Pick(item, {"id", "createdAt"}),
         [isProcessing |-> FALSE, title |-> "Encrypted Entry",
          transcription |-> "This entry is encrypted.", mood |-> "Locked",
          tags |-> << >>, insights |-> << >>])
\* the body of results.map(async item => ...)
ProcessItem(item, key) ==
  IF IsEncryptedRecord(item)
  THEN IF key # NoKey
       THEN IF ~Has(item, "iv") \/ ~Has(item, "cipherText")
               \/ decryptFails(key, item.iv, item.cipherText)
            THEN Spread(item, LockedMemory)
            ELSE Spread(Pick(item, EnvelopeFields),
                        decryptData(key, item.iv, item.cipherText))
       ELSE EncryptedEntry(item)
  ELSE item

\* store.getAll(): the records in key order
RECURSIVE GetAllFrom(_, _)
GetAllFrom(store, n) ==
  IF n > MaxEntries THEN << >>
  ELSE (IF n \in DOMAIN store THEN << store[n] >> ELSE << >>)
       \o GetAllFrom(store, n + 1)
\* new Date('').getTime(): the createdAt of an entry whose date field was
\* cleared; timestamps are never negative, so -1 stands for the non-number
NaN == -1
isNaN(x) == x = NaN
\* (a, b) => b.createdAt - a.createdAt; a NaN result counts as +0 in the sort
CompareFn(a, b) ==
  IF isNaN(a.createdAt) \/ isNaN(b.createdAt) THEN 0
  ELSE b.createdAt - a.createdAt
\* Array.prototype.sort((a, b) => b.createdAt - a.createdAt), which is stable
RECURSIVE InsertDesc(_, _)
InsertDesc(x, sorted) ==
  IF sorted = << >> THEN << x >>
  ELSE IF CompareFn(Head(sorted), x) < 0
       THEN << Head(sorted) >> \o InsertDesc(x, Tail(sorted))
       ELSE << x >> \o sorted
RECURSIVE SortDesc(_, _)
SortDesc(list, n) ==
  IF n > Len(list) THEN << >>
  ELSE InsertDesc(list[n], SortDesc(list, n + 1))
\* a variant of the map that leaves out the items that fail to decrypt
RECURSIVE MapItemsDroppingFailures(_, _, _)
MapItemsDroppingFailures(list, key, n) ==
  IF n > Len(list) THEN << >>
  ELSE (IF ProcessItem(list[n], key).title = "Locked Memory" THEN << >>
        ELSE << ProcessItem(list[n], key) >>)
       \o MapItemsDroppingFailures(list, key, n + 1)
RECURSIVE MapItems(_, _, _)
MapItems(list, key, n) ==
  IF n > Len(list) THEN << >>
  ELSE << ProcessItem(list[n], key) >> \o MapItems(list, key, n + 1)
getAllEntries(store, key) ==
  SortDesc(MapItems(GetAllFrom(store, 1), key, 1), 1)

\* ------------------------------------------------------------------ state
VARIABLES
  meta,              \* object store 'entries', keyed by entry id
  audio,             \* object store 'audio_files', keyed by entry id
  images,            \* object store 'images', keyed by ImageKey
  currentCryptoKey,  \* dbService.ts module variable
  sv,                \* the saveEntry call in flight
  idsv,              \* the saveUserIdentityImage call in flight
  mg,                \* the migrateToEncrypted / migrateToPlain call in flight
  ls,                \* localStorage: vocal_journal_salt, vocal_journal_validator
  gate,              \* useSecurity state: isLocked, encryptionSalt, passcodeValidator
  flow,              \* the handlers of the interface in flight (SettingsModal,
                     \* handleUnlock, processNewEntry) and useJournalEntries state
  idb,               \* the database as indexedDB.open finds it, and the
                     \* operation that waits in openDB
  crypt,             \* a call of cryptoService as its caller sees it: what was
                     \* encrypted, what came out and what decrypting it gave
  retry,             \* a call of retryWithBackoff: its parameters, its loop
                     \* variables, what fn did on each call and each delay
                     \* it waited
  hist               \* what the checked properties need to remember

stores == << meta, audio, images >>
appVars == << ls, gate, flow, idb, crypt, retry >>
vars ==
  << meta, audio, images, currentCryptoKey, sv, idsv, mg, ls, gate, flow, idb,
     crypt, retry, hist >>

\* no call of cryptoService has been made
CryptIdle ==
  [pc |-> "idle", kind |-> "none", key |-> NoKey, input |-> << >>,
   out |-> << >>, with |-> NoKey, result |-> << >>]

\* no call of retryWithBackoff has been made; `undefined` is the empty
\* optional
RetryIdle ==
  [pc |-> "idle", maxRetries |-> 0, initialDelay |-> 0, attempt |-> 0,
   lastError |-> << >>, outcomes |-> << >>, delays |-> << >>,
   result |-> << >>, thrown |-> << >>]

\* ---------------------------------------------------- dbService.ts: openDB
\* the database opens and no operation waits for it; indexedDB.open(DB_NAME,
\* DB_VERSION) can succeed, fail ("error"), or have to upgrade while another
\* connection holds the database at an older version ("blocked")
IdbReady ==
  [can |-> "success", pc |-> "idle", op |-> "none", args |-> << >>,
   result |-> None]

\* store.put(value, key)
Put(store, k, v) ==
  [x \in DOMAIN store \cup {k} |-> IF x = k THEN v ELSE store[x]]
\* store.delete(key)
Delete(store, ks) == [x \in DOMAIN store \ ks |-> store[x]]

\* ------------------------------------------------- dbService.ts: saveEntry
Stages == << "audio", "snapshot", "art" >>
NoBlobs == [audio |-> None, snapshot |-> None, art |-> None]
NoTx == [meta |-> None, audio |-> None, snapshot |-> None, art |-> None]
SvIdle ==
  [pc |-> "idle", by |-> "none", entry |-> << >>, blobs |-> NoBlobs,
   tx |-> NoTx, stage |-> 0, pend |-> None, key0 |-> NoKey]

\* a variant of the audio put that clears the row when the entry has no audio
ApplyAudioClearing(tx, id) ==
  IF tx.audio = None THEN Delete(audio, {id}) ELSE Put(audio, id, tx.audio[1])
\* a variant of the metadata put that merges into the record already stored
ApplyMetaMerging(tx, id) ==
  IF tx.meta = None THEN meta
  ELSE Put(meta, id, IF id \in DOMAIN meta THEN Spread(meta[id], tx.meta[1])
                     ELSE tx.meta[1])
\* the transaction's puts, applied when it commits
ApplyMeta(tx, id) == IF tx.meta = None THEN meta ELSE Put(meta, id, tx.meta[1])
ApplyAudio(tx, id) == IF tx.audio = None THEN audio ELSE Put(audio, id, tx.audio[1])
ApplyImages(tx, id) ==
  LET a == IF tx.snapshot = None THEN images
           ELSE Put(images, ImageKey(id, "snapshot"), tx.snapshot[1])
  IN IF tx.art = None THEN a ELSE Put(a, ImageKey(id, "art"), tx.art[1])
Commit(r) ==
  /\ meta' = ApplyMeta(r.tx, r.entry.id)
  /\ audio' = ApplyAudio(r.tx, r.entry.id)
  /\ images' = ApplyImages(r.tx, r.entry.id)

\* The synchronous run of saveEntry from blob `n` on (lines 92-122), with the
\* value currentCryptoKey has during it: a blob is put in the clear when no key
\* is set, and the call suspends at blob.arrayBuffer() when one is.
RECURSIVE Advance(_, _, _)
Advance(r, n, key) ==
  IF n > Len(Stages) THEN [r EXCEPT !.pc = "resolved", !.stage = 0]
  ELSE IF r.blobs[Stages[n]] = None THEN Advance(r, n + 1, key)
  ELSE IF key # NoKey THEN [r EXCEPT !.pc = "buffer", !.stage = n]
  ELSE Advance([r EXCEPT !.tx[Stages[n]] = r.blobs[Stages[n]]], n + 1, key)

\* the record saveEntry puts when a key is set (lines 80-87)
EncryptedRecord(metaData, encrypted) ==
  Spread(Pick(metaData, EnvelopeFields),
         [isEncrypted |-> TRUE, iv |-> encrypted.iv,
          cipherText |-> encrypted.content])

\* The call up to its first suspension (lines 51-90): with no key the whole
\* call runs in one task of the transaction; with a key it suspends in
\* encryptData, whose iv is drawn before it does.
SaveBegun(entry, blobs, by, key, iv) ==
  LET r0 == [SvIdle EXCEPT !.by = by, !.entry = entry, !.blobs = blobs,
                           !.key0 = key]
  IN IF key = NoKey
     THEN Advance([r0 EXCEPT !.tx.meta = Some(entry)], 1, NoKey)
     ELSE [r0 EXCEPT !.pc = "encrypt",
                     !.pend = Some(encryptData(key, Pick(entry, SensitiveFields), iv))]
\* what a step of the call does to the stores: nothing until the transaction
\* commits, all of its puts then
Settle(r) ==
  IF r.pc \in {"resolved", "rejected"} THEN Commit(r) ELSE UNCHANGED stores

saveEntry(entry, blobs) ==
  /\ sv.pc = "idle"
  /\ \E iv \in IVs :
       sv' = SaveBegun(entry, blobs, "caller", currentCryptoKey, iv)
  /\ Settle(sv')
  /\ UNCHANGED << currentCryptoKey, idsv, mg, appVars >>

\* Resumption after encryptData (line 90). An IndexedDB transaction is active
\* only in the task that created it and in the callbacks of its requests: the
\* put throws TransactionInactiveError, which the catch turns into a rejection
\* with nothing written. The other disjunct is an engine (spec section 9)
\* whose transaction lasts until the call ends.
SaveMetaInactive ==
  /\ sv.pc = "encrypt"
  /\ sv' = [sv EXCEPT !.pc = "rejected", !.pend = None]
  /\ UNCHANGED << stores, currentCryptoKey, idsv, mg, appVars >>
\* a variant in which the metadata put commits in a transaction of its own
SaveMetaPutOwnTransaction ==
  /\ sv.pc = "encrypt"
  /\ sv' = Advance([sv EXCEPT !.tx.meta = Some(EncryptedRecord(sv.entry, sv.pend[1])),
                              !.pend = None],
                   1, currentCryptoKey)
  /\ meta' = Put(meta, sv.entry.id, EncryptedRecord(sv.entry, sv.pend[1]))
  /\ audio' = IF sv'.pc = "resolved" THEN ApplyAudio(sv'.tx, sv.entry.id) ELSE audio
  /\ images' = IF sv'.pc = "resolved" THEN ApplyImages(sv'.tx, sv.entry.id) ELSE images
  /\ UNCHANGED << currentCryptoKey, idsv, mg, appVars >>
SaveMetaPut ==
  /\ sv.pc = "encrypt"
  /\ sv' = Advance([sv EXCEPT !.tx.meta = Some(EncryptedRecord(sv.entry, sv.pend[1])),
                              !.pend = None],
                   1, currentCryptoKey)
  /\ Settle(sv')
  /\ UNCHANGED << currentCryptoKey, idsv, mg, appVars >>
\* Resumption after blob.arrayBuffer() (lines 96-97, 110-111): encryptBuffer
\* is called with the value currentCryptoKey has now; with null it throws, the
\* call rejects, and the puts already made commit (nothing aborts them).
SaveBlobBuffered ==
  /\ sv.pc = "buffer"
  /\ IF currentCryptoKey = NoKey
     THEN sv' = [sv EXCEPT !.pc = "rejected"]
     ELSE \E iv \in IVs :
            sv' = [sv EXCEPT !.pc = "encryptBlob",
                     !.pend = Some(encryptBuffer(currentCryptoKey,
                                     sv.blobs[Stages[sv.stage]][1].data, iv))]
  /\ Settle(sv')
  /\ UNCHANGED << currentCryptoKey, idsv, mg, appVars >>
\* Resumption after encryptBuffer (lines 98, 112)
SaveBlobPut ==
  /\ sv.pc = "encryptBlob"
  /\ sv' = Advance([sv EXCEPT
                      !.tx[Stages[sv.stage]] =
                         Some(EncRow(sv.pend[1], sv.blobs[Stages[sv.stage]][1].type)),
                      !.pend = None],
                   sv.stage + 1, currentCryptoKey)
  /\ Settle(sv')
  /\ UNCHANGED << currentCryptoKey, idsv, mg, appVars >>
\* the caller's await returns
SaveReturn ==
  /\ sv.pc \in {"resolved", "rejected"}
  /\ sv.by = "caller"
  /\ sv' = SvIdle
  /\ UNCHANGED << stores, currentCryptoKey, idsv, mg, appVars >>

\* -------------------------------------- dbService.ts: saveUserIdentityImage
IdIdle == [pc |-> "idle", by |-> "none", blob |-> None, pend |-> None]
\* lines 316-329: with no key the put is made at once; with a key the call
\* suspends at blob.arrayBuffer()
IdBegun(blob, by, key) ==
  [pc |-> IF key = NoKey THEN "resolved" ELSE "buffer", by |-> by,
   blob |-> Some(blob), pend |-> None]
IdSettle(r, key) ==
  IF r.pc = "resolved" /\ key = NoKey
  THEN images' = Put(images, IDENTITY_KEY, r.blob[1])
  ELSE UNCHANGED images
saveUserIdentityImage(blob) ==
  /\ idsv.pc = "idle"
  /\ idsv' = IdBegun(blob, "caller", currentCryptoKey)
  /\ IdSettle(idsv', currentCryptoKey)
  /\ UNCHANGED << meta, audio, currentCryptoKey, sv, mg, appVars >>
\* line 325: encryptBuffer with the key of now. The executor has no try: an
\* exception in it leaves the promise pending for ever.
IdBuffered ==
  /\ idsv.pc = "buffer"
  /\ IF currentCryptoKey = NoKey
     THEN idsv' = [idsv EXCEPT !.pc = "pending"]
     ELSE \E iv \in IVs :
            idsv' = [idsv EXCEPT !.pc = "encryptBlob",
                       !.pend = Some(encryptBuffer(currentCryptoKey,
                                                   idsv.blob[1].data, iv))]
  /\ UNCHANGED << stores, currentCryptoKey, sv, mg, appVars >>
\* line 326: the put after two awaits, on a transaction that is no longer
\* active (the promise stays pending) or on an engine that kept it open
IdPutInactive ==
  /\ idsv.pc = "encryptBlob"
  /\ idsv' = [idsv EXCEPT !.pc = "pending", !.pend = None]
  /\ UNCHANGED << stores, currentCryptoKey, sv, mg, appVars >>
IdPut ==
  /\ idsv.pc = "encryptBlob"
  /\ images' = Put(images, IDENTITY_KEY, EncRow(idsv.pend[1], idsv.blob[1].type))
  /\ idsv' = [idsv EXCEPT !.pc = "resolved", !.pend = None]
  /\ UNCHANGED << meta, audio, currentCryptoKey, sv, mg, appVars >>
\* the caller's await returns, or the caller is left waiting
IdReturn ==
  /\ idsv.pc \in {"resolved", "pending"}
  /\ idsv.by = "caller"
  /\ idsv' = IdIdle
  /\ UNCHANGED << stores, currentCryptoKey, sv, mg, appVars >>

\* --------------------------------------- dbService.ts: deletes, key setter
\* a variant that empties the audio store
deleteEntryClearsAudio(id) ==
  /\ meta' = Delete(meta, {id})
  /\ audio' = Delete(audio, DOMAIN audio)
  /\ images' = Delete(images, {ImageKey(id, "snapshot"), ImageKey(id, "art")})
  /\ UNCHANGED << currentCryptoKey, sv, idsv, mg, appVars >>
\* a variant that leaves the image rows
deleteEntryKeepsImages(id) ==
  /\ meta' = Delete(meta, {id})
  /\ audio' = Delete(audio, {id})
  /\ UNCHANGED << images, currentCryptoKey, sv, idsv, mg, appVars >>
deleteEntry(id) ==
  /\ meta' = Delete(meta, {id})
  /\ audio' = Delete(audio, {id})
  /\ images' = Delete(images, {ImageKey(id, "snapshot"), ImageKey(id, "art")})
  /\ UNCHANGED << currentCryptoKey, sv, idsv, mg, appVars >>
\* a variant that deletes the images of both kinds
deleteEntryImageBoth(id, kind) ==
  /\ images' = Delete(images, {ImageKey(id, "snapshot"), ImageKey(id, "art")})
  /\ UNCHANGED << meta, audio, currentCryptoKey, sv, idsv, mg, appVars >>
deleteEntryImage(id, kind) ==
  /\ images' = Delete(images, {ImageKey(id, kind)})
  /\ UNCHANGED << meta, audio, currentCryptoKey, sv, idsv, mg, appVars >>
setDbEncryptionKey(key) ==
  /\ currentCryptoKey' = key
  /\ UNCHANGED << stores, sv, idsv, mg, appVars >>

\* the attachments a caller passes with an entry
BlobInputs ==
  { [audio |-> None, snapshot |-> None, art |-> None],
    [audio |-> Some(AudioSample), snapshot |-> None, art |-> None],
    [audio |-> None, snapshot |-> Some(SnapshotSample), art |-> None],
    [audio |-> Some(AudioSample), snapshot |-> Some(SnapshotSample),
     art |-> Some(ArtSample)] }

\* ------------------------- dbService.ts: migrateToEncrypted, migrateToPlain
MgIdle ==
  [pc |-> "idle", by |-> "none", kind |-> "none", key |-> NoKey,
   entries |-> << >>, i |-> 0]
\* lines 368-370 and 398-399: the key is set, then getAllEntries is awaited
MigrateBegun(kind, key, by) ==
  [MgIdle EXCEPT !.pc = "read", !.by = by, !.kind = kind, !.key = key]
MigrateStart(kind, key, by) ==
  /\ mg.pc = "idle"
  /\ mg' = MigrateBegun(kind, key, by)
  /\ currentCryptoKey' = IF kind = "encrypt" THEN NoKey ELSE key
migrateToEncrypted(key) ==
  /\ MigrateStart("encrypt", key, "caller")
  /\ UNCHANGED << stores, sv, idsv, appVars >>
migrateToPlain(key) ==
  /\ MigrateStart("plain", key, "caller")
  /\ UNCHANGED << stores, sv, idsv, appVars >>
\* getAllEntries returns (lines 370-376, 387 and 399-402)
MigrateRead ==
  /\ mg.pc = "read"
  /\ LET allEntries == getAllEntries(meta, currentCryptoKey) IN
       /\ mg' = [mg EXCEPT !.entries = allEntries, !.i = 1,
                   !.pc = IF allEntries = << >> THEN "identity" ELSE "entry"]
       /\ currentCryptoKey' =
            IF mg.kind = "plain" THEN currentCryptoKey
            ELSE IF allEntries = << >> THEN NoKey ELSE mg.key
  /\ UNCHANGED << stores, sv, idsv, appVars >>
\* one turn of the loop up to the suspension of its saveEntry (lines 378-383
\* and 403-410): the three attachments are read with the key of now, and
\* migrateToPlain clears the key before it saves.
MigrateEntry ==
  /\ mg.pc = "entry"
  /\ sv.pc = "idle"
  /\ LET entry == mg.entries[mg.i]
         blobs == [audio |-> getEntryAudio(audio, entry.id, currentCryptoKey),
                   snapshot |-> getEntryImage(images, entry.id, "snapshot", currentCryptoKey),
                   art |-> getEntryImage(images, entry.id, "art", currentCryptoKey)]
         saveKey == IF mg.kind = "plain" THEN NoKey ELSE currentCryptoKey
     IN /\ \E iv \in IVs : sv' = SaveBegun(entry, blobs, "migration", saveKey, iv)
        /\ currentCryptoKey' = saveKey
  /\ Settle(sv')
  /\ mg' = [mg EXCEPT !.pc = "save"]
  /\ UNCHANGED << idsv, appVars >>
\* the saveEntry of the loop returns (lines 383-387 and 410-414); a rejection
\* leaves the function at once, with the key as it is
MigrateSaved ==
  /\ mg.pc = "save"
  /\ sv.by = "migration"
  /\ sv.pc \in {"resolved", "rejected"}
  /\ sv' = SvIdle
  /\ LET last == mg.i = Len(mg.entries) IN
       IF sv.pc = "rejected"
       THEN /\ mg' = [mg EXCEPT !.pc = "failed"]
            /\ UNCHANGED currentCryptoKey
       ELSE /\ mg' = [mg EXCEPT !.i = mg.i + 1,
                        !.pc = IF last THEN "identity" ELSE "entry"]
            /\ currentCryptoKey' =
                 IF mg.kind = "plain" THEN mg.key
                 ELSE IF last THEN NoKey ELSE currentCryptoKey
  /\ UNCHANGED << stores, idsv, appVars >>
\* a variant that returns without saving the identity photo again
MigrateIdentitySkipping ==
  /\ mg.pc = "identity"
  /\ idsv.pc = "idle"
  /\ currentCryptoKey' = IF mg.kind = "encrypt" THEN mg.key ELSE NoKey
  /\ mg' = [mg EXCEPT !.pc = "done"]
  /\ UNCHANGED << stores, idsv, sv, appVars >>
\* the identity photo (lines 388-393 and 416-423)
MigrateIdentity ==
  /\ mg.pc = "identity"
  /\ idsv.pc = "idle"
  /\ LET identity == getUserIdentityImage(images, currentCryptoKey)
         newKey == IF mg.kind = "encrypt" THEN mg.key ELSE NoKey
     IN /\ currentCryptoKey' = newKey
        /\ IF identity = None
           THEN /\ mg' = [mg EXCEPT !.pc = "done"]
                /\ UNCHANGED << idsv, images >>
           ELSE /\ mg' = [mg EXCEPT !.pc = "identitySave"]
                /\ idsv' = IdBegun(identity[1], "migration", newKey)
                /\ IdSettle(idsv', newKey)
  /\ UNCHANGED << meta, audio, sv, appVars >>
MigrateIdentitySaved ==
  /\ mg.pc = "identitySave"
  /\ idsv.by = "migration"
  /\ idsv.pc = "resolved"
  /\ idsv' = IdIdle
  /\ mg' = [mg EXCEPT !.pc = "done"]
  /\ currentCryptoKey' = IF mg.kind = "encrypt" THEN mg.key ELSE NoKey
  /\ UNCHANGED << stores, sv, appVars >>
\* the caller's await returns or throws
MigrateReturn ==
  /\ mg.pc \in {"done", "failed"}
  /\ mg.by = "caller"
  /\ mg' = MgIdle
  /\ UNCHANGED << stores, currentCryptoKey, sv, idsv, appVars >>

\* ------------------------------------------------- hooks/useSecurity.ts
\* the interface when the page has loaded: no handler in flight, the entry
\* list of useJournalEntries empty and not yet loaded
PneIdle == [pc |-> "idle", temp |-> << >>]
FlowIdle ==
  [pc |-> "idle", unlock |-> None, entries |-> << >>, loaded |-> FALSE,
   isProcessing |-> FALSE, pne |-> PneIdle]
Unconfigured == [salt |-> None, validator |-> None]
\* handleUnlock (lines 153-168). With no salt or validator in the hook's state
\* it returns false at once. Otherwise it suspends in digest and deriveKey,
\* holding the code and the salt and validator of the render it was called
\* in; when it resumes it compares the hash with that validator and on a
\* match installs the key derived from that code and salt.
UnlockMatches(u) == Validator(u.code, u.salt) = u.validator
\* a variant that derives the key without the stored salt
UnlockKeyUnsalted(u) == deriveKey(u.code, 0)
UnlockKey(u) == deriveKey(u.code, u.salt)
\* the value handleUnlock returns when it resumes
handleUnlockReturns(u) == UnlockMatches(u)
handleUnlock(code) ==
  /\ flow.unlock = None
  /\ flow' = IF gate.encryptionSalt = None \/ gate.passcodeValidator = None
             THEN flow
             ELSE [flow EXCEPT !.unlock =
                     Some([code |-> code, salt |-> gate.encryptionSalt[1],
                           validator |-> gate.passcodeValidator[1]])]
  /\ UNCHANGED << stores, currentCryptoKey, sv, idsv, mg, ls, gate, idb, crypt, retry >>
\* a variant that opens the gate whatever the code
handleUnlockResumedOpens ==
  /\ flow.unlock # None
  /\ IF UnlockMatches(flow.unlock[1])
     THEN currentCryptoKey' = UnlockKey(flow.unlock[1])
     ELSE UNCHANGED currentCryptoKey
  /\ gate' = [gate EXCEPT !.isLocked = FALSE]
  /\ flow' = [flow EXCEPT !.unlock = None]
  /\ UNCHANGED << stores, sv, idsv, mg, ls, idb, crypt, retry >>
handleUnlockResumed ==
  /\ flow.unlock # None
  /\ IF UnlockMatches(flow.unlock[1])
     THEN /\ currentCryptoKey' = UnlockKey(flow.unlock[1])
          /\ gate' = [gate EXCEPT !.isLocked = FALSE]
     ELSE UNCHANGED << currentCryptoKey, gate >>
  /\ flow' = [flow EXCEPT !.unlock = None]
  /\ UNCHANGED << stores, sv, idsv, mg, ls, idb, crypt, retry >>
\* a variant of the lock that forgets the passcode as well
lockAppForgetting ==
  /\ currentCryptoKey' = NoKey
  /\ gate' = [gate EXCEPT !.isLocked = TRUE]
  /\ ls' = [salt |-> None, validator |-> None]
  /\ flow' = [flow EXCEPT !.loaded = FALSE]
  /\ UNCHANGED << stores, sv, idsv, mg, idb, crypt, retry >>
lockApp ==
  /\ currentCryptoKey' = NoKey
  /\ gate' = [gate EXCEPT !.isLocked = TRUE]
  /\ flow' = [flow EXCEPT !.loaded = FALSE]
  /\ UNCHANGED << stores, sv, idsv, mg, ls, idb, crypt, retry >>
\* updatePasscodeConfig(newCode): what it persists and what it sets
\* a variant that persists the salt without the validator
PasscodeSetSaltOnly(code, salt) ==
  /\ ls' = [salt |-> Some(salt), validator |-> None]
  /\ gate' = [gate EXCEPT !.encryptionSalt = Some(salt),
                          !.passcodeValidator = Some(Validator(code, salt))]
\* a variant that persists a validator computed without the salt
PasscodeSetUnsalted(code, salt) ==
  /\ ls' = [salt |-> Some(salt), validator |-> Some(Validator(code, 0))]
  /\ gate' = [gate EXCEPT !.encryptionSalt = Some(salt),
                          !.passcodeValidator = Some(Validator(code, 0))]
PasscodeSet(code, salt) ==
  /\ ls' = [salt |-> Some(salt), validator |-> Some(Validator(code, salt))]
  /\ gate' = [gate EXCEPT !.encryptionSalt = Some(salt),
                          !.passcodeValidator = Some(Validator(code, salt))]
\* updatePasscodeConfig(null)
PasscodeErased ==
  /\ ls' = Unconfigured
  /\ gate' = [gate EXCEPT !.encryptionSalt = None, !.passcodeValidator = None]
  /\ currentCryptoKey' = NoKey
\* a variant of the reload in which the key outlives the page
ReloadKeepingKey ==
  /\ sv' = SvIdle
  /\ idsv' = IdIdle
  /\ mg' = MgIdle
  /\ flow' = FlowIdle
  /\ gate' = IF ls.salt # None /\ ls.validator # None
             THEN [isLocked |-> TRUE, encryptionSalt |-> ls.salt,
                   passcodeValidator |-> ls.validator]
             ELSE [isLocked |-> FALSE, encryptionSalt |-> None,
                   passcodeValidator |-> None]
  /\ UNCHANGED << stores, ls, currentCryptoKey, idb, crypt, retry >>
\* the effect that runs when the page has loaded: module state starts anew,
\* calls in flight are gone, the hook reads localStorage
Reload ==
  /\ currentCryptoKey' = NoKey
  /\ sv' = SvIdle
  /\ idsv' = IdIdle
  /\ mg' = MgIdle
  /\ flow' = FlowIdle
  /\ gate' = IF ls.salt # None /\ ls.validator # None
             THEN [isLocked |-> TRUE, encryptionSalt |-> ls.salt,
                   passcodeValidator |-> ls.validator]
             ELSE [isLocked |-> FALSE, encryptionSalt |-> None,
                   passcodeValidator |-> None]
  /\ UNCHANGED << stores, ls, idb, crypt, retry >>

\* -------------------------------------------- components/SettingsModal.tsx
\* handleSetPasscode up to its second await (lines 79-94): the passcode is
\* persisted with a fresh salt, the key derived, migrateToEncrypted begun
handleSetPasscode(code) ==
  /\ flow.pc = "idle"
  /\ \E salt \in Salts :
       /\ PasscodeSet(code, salt)
       /\ MigrateStart("encrypt", deriveKey(code, salt), "flow")
  /\ flow' = [flow EXCEPT !.pc = "setting"]
  /\ UNCHANGED << stores, sv, idsv, idb, crypt, retry >>
\* executeRemovePasscode up to its await (lines 110-114): migrateToPlain is
\* called with null
executeRemovePasscode ==
  /\ flow.pc = "idle"
  /\ MigrateStart("plain", NoKey, "flow")
  /\ flow' = [flow EXCEPT !.pc = "removing"]
  /\ UNCHANGED << stores, sv, idsv, ls, gate, idb, crypt, retry >>
\* the migration returned or threw (lines 95-107 and 115-121)
FlowEnd ==
  /\ flow.pc # "idle"
  /\ mg.by = "flow"
  /\ mg.pc \in {"done", "failed"}
  /\ mg' = MgIdle
  /\ flow' = [flow EXCEPT !.pc = "idle"]
  /\ IF (flow.pc = "setting") = (mg.pc = "failed")
     THEN PasscodeErased
     ELSE UNCHANGED << ls, gate, currentCryptoKey >>
  /\ UNCHANGED << stores, sv, idsv, idb, crypt, retry >>

\* --------------------------------- hooks/useJournalEntries.ts and App.tsx
\* The effect of App.tsx 61-67: once the application is loaded and whenever
\* it becomes unlocked, loadEntries replaces the list by getAllEntries().
loadEntries ==
  /\ ~gate.isLocked
  /\ ~flow.loaded
  /\ flow' = [flow EXCEPT !.loaded = TRUE,
                          !.entries = getAllEntries(meta, currentCryptoKey)]
  /\ UNCHANGED << stores, currentCryptoKey, sv, idsv, mg, ls, gate, idb, crypt, retry >>
\* setEntries(prev => prev.map(e => e.id === entry.id ? entry : e))
MapEntries(list, entry) ==
  [n \in DOMAIN list |-> IF list[n].id = entry.id THEN entry ELSE list[n]]
\* finalEntry (lines 66-76) with what analyzeEntry returned
AnalysedEntry(temp) ==
  Spread(temp,
         [transcription |-> "walked by the sea", summary |-> "a walk",
          title |-> "Sea", mood |-> "calm", tags |-> << "sea" >>,
          insights |-> << [type |-> "memory", title |-> "tide", content |-> "c"] >>,
          isProcessing |-> FALSE])
\* a variant of the error entry that is still marked as being processed
ErrorEntryProcessing(temp) ==
  Spread(temp,
         [transcription |-> "Failed to transcribe audio.",
          title |-> "Error Processing"])
\* errorEntry (lines 89-94)
ErrorEntry(temp) ==
  Spread(temp,
         [transcription |-> "Failed to transcribe audio.",
          title |-> "Error Processing", isProcessing |-> FALSE])
\* saveEntry({ ...entry, audioBlob: input }) called by processNewEntry
PneSave(entry) ==
  /\ \E iv \in IVs :
       sv' = SaveBegun(entry, [NoBlobs EXCEPT !.audio = Some(AudioSample)],
                       "hook", currentCryptoKey, iv)
  /\ Settle(sv')
\* the catch block (lines 87-97): the list shows the error entry, which is
\* then saved
PneCatch ==
  /\ flow' = [flow EXCEPT !.entries = MapEntries(@, ErrorEntry(flow.pne.temp)),
                          !.pne.pc = "errorSave"]
  /\ PneSave(ErrorEntry(flow.pne.temp))
PneReturned(r) == r.by = "hook" /\ r.pc \in {"resolved", "rejected"}
\* processNewEntry up to its first await (lines 27-59): the temporary entry
\* is put at the head of the list, then saveEntry is called and waits for
\* the database
processNewEntry(id) ==
  /\ ~gate.isLocked
  /\ flow.pne.pc = "idle"
  /\ id \notin DOMAIN meta
  /\ \A n \in DOMAIN flow.entries : flow.entries[n].id # id
  /\ flow' = [flow EXCEPT !.entries = << TempEntry(id) >> \o @,
                          !.isProcessing = TRUE,
                          !.pne = [pc |-> "begun", temp |-> TempEntry(id)]]
  /\ UNCHANGED << stores, currentCryptoKey, sv, idsv, mg, ls, gate, idb, crypt, retry >>
\* the saveEntry of the temporary entry runs (line 59)
PneTempSave ==
  /\ flow.pne.pc = "begun"
  /\ sv.pc = "idle"
  /\ PneSave(flow.pne.temp)
  /\ flow' = [flow EXCEPT !.pne.pc = "tempSave"]
  /\ UNCHANGED << currentCryptoKey, idsv, mg, ls, gate, idb, crypt, retry >>
\* it returns: analyzeEntry is called (line 64); or it throws
PneTempSaved ==
  /\ flow.pne.pc = "tempSave"
  /\ PneReturned(sv)
  /\ IF sv.pc = "resolved"
     THEN /\ sv' = SvIdle
          /\ flow' = [flow EXCEPT !.pne.pc = "analyze"]
          /\ UNCHANGED stores
     ELSE PneCatch
  /\ UNCHANGED << currentCryptoKey, idsv, mg, ls, gate, idb, crypt, retry >>
\* analyzeEntry returns and the final entry is saved (lines 64-79), or it
\* throws
PneAnalyzed ==
  /\ flow.pne.pc = "analyze"
  /\ sv.pc = "idle"
  /\ \/ /\ PneSave(AnalysedEntry(flow.pne.temp))
        /\ flow' = [flow EXCEPT !.pne.pc = "finalSave"]
     \/ PneCatch
  /\ UNCHANGED << currentCryptoKey, idsv, mg, ls, gate, idb, crypt, retry >>
\* the saveEntry of the final entry returns: the list shows the final entry
\* (line 84); or it throws
PneFinalSaved ==
  /\ flow.pne.pc = "finalSave"
  /\ PneReturned(sv)
  /\ IF sv.pc = "resolved"
     THEN /\ sv' = SvIdle
          /\ flow' = [flow EXCEPT
                        !.entries = MapEntries(@, AnalysedEntry(flow.pne.temp)),
                        !.isProcessing = FALSE, !.pne = PneIdle]
          /\ UNCHANGED stores
     ELSE PneCatch
  /\ UNCHANGED << currentCryptoKey, idsv, mg, ls, gate, idb, crypt, retry >>
\* the saveEntry of the error entry returns or throws; finally (lines 98-100)
PneErrorSaved ==
  /\ flow.pne.pc = "errorSave"
  /\ PneReturned(sv)
  /\ sv' = SvIdle
  /\ flow' = [flow EXCEPT !.isProcessing = FALSE, !.pne = PneIdle]
  /\ UNCHANGED << stores, currentCryptoKey, idsv, mg, ls, gate, idb, crypt, retry >>
\* the entry card's handleDelete: deleteEntry(entry.id) removes the record
\* and the three rows, then deleteEntryState removes the entry from the list;
\* an entry that is being processed is shown as a loader and has no card
handleDelete(n) ==
  /\ ~gate.isLocked
  /\ n \in DOMAIN flow.entries
  /\ ~flow.entries[n].isProcessing
  /\ meta' = Delete(meta, {flow.entries[n].id})
  /\ audio' = Delete(audio, {flow.entries[n].id})
  /\ images' = Delete(images, {ImageKey(flow.entries[n].id, "snapshot"),
                               ImageKey(flow.entries[n].id, "art")})
  /\ flow' = [flow EXCEPT !.entries =
                SelectSeq(@, LAMBDA e : e.id # flow.entries[n].id)]
  /\ UNCHANGED << currentCryptoKey, sv, idsv, mg, ls, gate, idb, crypt, retry >>

\* ----------------------------------------------------------- the caller
\* What the checked properties remember: the calls made, the list the last
\* getAllEntries returned (until the next operation), the entry and key of the
\* saveEntry that just resolved, the migrations a caller has run, the corpus
\* at the start, the list read before the last lock with the stores at that
\* moment and the list read while locked, the erasure of the passcode that
\* just happened, the true content at the start of a removal, the code and
\* the return value of the handleUnlock that just returned, the code of the
\* handleUnlock in flight and whether the passcode persisted at the call
\* made it a wrong one, the code and key of the set-passcode flow that began
\* last and whether it has completed (until a removal begins), the id of
\* the deleteEntry or deleteEntryImage that just completed, with what it
\* deleted and the stores before it, the lockApp that just ran, the reload
\* that just happened with the key that was active before it, whether the
\* last reload found a passcode and no handleUnlock has returned true since,
\* the ids processNewEntry has put in the list since it was last loaded and
\* the entries whose saveEntry has resolved for processNewEntry, the stores
\* as they were when the operation that waits in openDB was called, what
\* the corpus was when the last migration was called, the migration that the
\* last reload cut short (until the next step of a flow), the passcode
\* that updatePasscodeConfig was last given.
HistInit ==
  [calls |-> 0, view |-> None, saved |-> None, trail |-> << >>,
   orig |-> << meta, audio, images >>, lock |-> None, erased |-> FALSE,
   before |-> None, unlock |-> None, attempt |-> None, set |-> None,
   deleted |-> None, locked |-> FALSE, reloaded |-> None,
   relocked |-> FALSE, recorded |-> {}, stored |-> {}, atOpen |-> None,
   from |-> None, cut |-> None, code |-> None]
Forget(h) ==
  [h EXCEPT !.view = None, !.saved = None, !.lock = None, !.erased = FALSE,
            !.unlock = None, !.deleted = None, !.locked = FALSE,
            !.reloaded = None, !.cut = None]
\* a call by a user of the store or of the application, within the budget
Call == /\ hist.calls < MaxCalls
        /\ hist' = [Forget(hist) EXCEPT !.calls = @ + 1]
\* a step of an operation in flight
Step == hist' = Forget(hist)
\* a step of saveEntry: the entry and the key it began with are remembered
\* when a caller's call resolves
SaveStep ==
  hist' = [Forget(hist) EXCEPT
             !.saved = IF sv'.pc = "resolved" /\ sv'.by = "caller"
                       THEN Some([entry |-> sv'.entry, key |-> sv'.key0])
                       ELSE None]
\* getAllEntries as a caller sees it
ReadAll ==
  /\ hist.view = None
  /\ hist' = [hist EXCEPT !.view = Some(getAllEntries(meta, currentCryptoKey))]
  /\ UNCHANGED << stores, currentCryptoKey, sv, idsv, mg, appVars >>

\* A corpus written with no passcode set: every record in the clear.
PlainCorpus(ms, as, ss, gs, withIdentity) ==
  /\ meta = [i \in ms |-> IF i = 1 THEN FinalEntry(i) ELSE TempEntry(i)]
  /\ audio = [i \in as |-> AudioSample]
  /\ images = [k \in { ImageKey(i, "snapshot") : i \in ss }
                      \cup { ImageKey(i, "art") : i \in gs }
                      \cup (IF withIdentity THEN {IDENTITY_KEY} ELSE {}) |->
                 IF k = IDENTITY_KEY THEN IdentitySample
                 ELSE IF k[2] = "snapshot" THEN SnapshotSample ELSE ArtSample]
Init ==
  /\ \E ms \in SUBSET Ids : \E as \in SUBSET ms : \E withIdentity \in BOOLEAN :
       PlainCorpus(ms, as, as, as, withIdentity)
  /\ currentCryptoKey = NoKey
  /\ sv = SvIdle
  /\ idsv = IdIdle
  /\ mg = MgIdle
  /\ ls = Unconfigured
  /\ gate = [isLocked |-> FALSE, encryptionSalt |-> None, passcodeValidator |-> None]
  /\ flow = FlowIdle
  /\ idb = IdbReady
  /\ crypt = CryptIdle
  /\ retry = RetryIdle
  /\ hist = HistInit

CallDelete ==
  /\ hist.calls < MaxCalls
  /\ \E id \in Ids :
       /\ deleteEntry(id)
       /\ hist' = [Forget(hist) EXCEPT !.calls = @ + 1,
                     !.deleted = Some([id |-> id, what |-> "entry",
                                       stores |-> stores])]
CallDeleteImage ==
  /\ hist.calls < MaxCalls
  /\ \E id \in Ids, kind \in ImageKinds :
       /\ deleteEntryImage(id, kind)
       /\ hist' = [Forget(hist) EXCEPT !.calls = @ + 1,
                     !.deleted = Some([id |-> id, what |-> kind,
                                       stores |-> stores])]
\* the entry card's updateField: a date string is converted with
\* new Date(value).getTime(), which is NaN for the empty string
DateValue(value) == IF value = "" THEN NaN ELSE value
updateField(entry, field, value) ==
  [f \in DOMAIN entry \cup {field} |->
     IF f # field THEN entry[f]
     ELSE IF field = "createdAt" THEN DateValue(value) ELSE value]
CallSave ==
  /\ Call
  /\ \/ \E entry \in EntryInputs, blobs \in BlobInputs : saveEntry(entry, blobs)
     \/ \E n \in 1..MaxEntries :
          /\ n <= Len(getAllEntries(meta, currentCryptoKey))
          /\ saveEntry(getAllEntries(meta, currentCryptoKey)[n], NoBlobs)
     \/ \E n \in 1..MaxEntries :
          /\ n <= Len(getAllEntries(meta, currentCryptoKey))
          /\ saveEntry(updateField(getAllEntries(meta, currentCryptoKey)[n],
                                   "createdAt", ""), NoBlobs)
SaveSteps ==
  \/ SaveMetaInactive /\ SaveStep
  \/ SaveMetaPut /\ SaveStep
  \/ SaveBlobBuffered /\ SaveStep
  \/ SaveBlobPut /\ SaveStep
IdentitySteps ==
  \/ IdBuffered /\ Step
  \/ IdPutInactive /\ Step
  \/ IdPut /\ Step
MigrateSteps ==
  \/ MigrateRead /\ Step
  \/ MigrateEntry /\ Step
  \/ MigrateSaved /\ Step
  \/ MigrateIdentity /\ Step
  \/ MigrateIdentitySaved /\ Step

\* The store under its callers: every exported operation but the migrations.
Next ==
  \/ ReadAll
  \/ CallSave
  \/ SaveSteps
  \/ SaveReturn /\ Step
  \/ Call /\ saveUserIdentityImage(IdentitySample)
  \/ IdentitySteps
  \/ IdReturn /\ Step
  \/ CallDelete
  \/ CallDeleteImage
  \/ Call /\ \E key \in Keys \cup {NoKey} : setDbEncryptionKey(key)
Spec == Init /\ [][Next]_vars

\* The migrations with no other writer: a caller runs one migration after
\* another.
MigrationReturned ==
  /\ MigrateReturn
  /\ hist' = [Forget(hist) EXCEPT
                !.trail = Append(@, [kind |-> mg.kind, key |-> mg.key,
                                     result |-> mg.pc])]
\* every record and row is in the clear
AllPlain(m, a, im) ==
  /\ \A i \in DOMAIN m : ~IsEncryptedRecord(m[i])
  /\ \A i \in DOMAIN a : IsBlob(a[i])
  /\ \A k \in DOMAIN im : IsBlob(im[k])
\* every record and row is tagged encrypted and sealed under `key`
AllEncryptedUnder(m, a, im, key) ==
  /\ \A i \in DOMAIN m :
       /\ IsEncryptedRecord(m[i])
       /\ Opens(key, m[i].iv, m[i].cipherText)
  /\ \A i \in DOMAIN a :
       ~IsBlob(a[i]) /\ a[i].isEncrypted /\ Opens(key, a[i].iv, a[i].data)
  /\ \A k \in DOMAIN im :
       ~IsBlob(im[k]) /\ im[k].isEncrypted /\ Opens(key, im[k].iv, im[k].data)
\* a caller's migration, with the corpus it is called on remembered
CallMigration ==
  /\ hist.calls < MaxCalls
  /\ hist' = [Forget(hist) EXCEPT
                !.calls = @ + 1,
                !.from = Some([key |-> currentCryptoKey,
                               plain |-> AllPlain(meta, audio, images),
                               under |-> { k \in Keys :
                                  AllEncryptedUnder(meta, audio, images, k) }])]
NextMigration ==
  \/ ReadAll
  \/ CallMigration /\ \E key \in Keys : migrateToEncrypted(key)
  \/ CallMigration /\ \E key \in Keys : migrateToPlain(key)
  \/ MigrateSteps
  \/ MigrationReturned
  \/ SaveSteps
  \/ IdentitySteps
SpecMigration == Init /\ [][NextMigration]_vars

\* The application: the passcode gate and the settings flows over the store.
\* The lock button shows while a passcode is configured, the lock screen
\* while the gate is locked, and the settings buttons under neither.
TrueContent(item) ==
  IF IsEncryptedRecord(item)
  THEN Spread(Pick(item, EnvelopeFields), Parse(item.cipherText.pt))
  ELSE item
UserSetsPasscode ==
  /\ ~gate.isLocked
  /\ gate.passcodeValidator = None
  /\ hist.calls < MaxCalls
  /\ \E code \in Codes :
       /\ handleSetPasscode(code)
       /\ hist' = [Forget(hist) EXCEPT !.calls = @ + 1,
                     !.code = Some(code),
                     !.set = Some([code |-> code, key |-> mg'.key,
                                   done |-> FALSE])]
UserRemovesPasscode ==
  /\ ~gate.isLocked
  /\ gate.passcodeValidator # None
  /\ executeRemovePasscode
  /\ hist.calls < MaxCalls
  /\ hist' = [Forget(hist) EXCEPT !.calls = @ + 1, !.set = None,
                !.before = Some([i \in DOMAIN meta |-> TrueContent(meta[i])])]
FlowEnds ==
  /\ FlowEnd
  /\ hist' = [Forget(hist) EXCEPT !.before = None,
                !.erased = (ls' = Unconfigured /\ ls # Unconfigured),
                !.set = IF flow.pc = "setting" /\ mg.pc = "done" /\ hist.set # None
                        THEN Some([hist.set[1] EXCEPT !.done = TRUE])
                        ELSE None]
\* every entry is stored encrypted under `key`, the key of the passcode that
\* is configured, and nothing is in flight
EncryptedUnderPasscode(key) ==
  /\ key # NoKey
  /\ ls.salt # None /\ ls.validator # None
  /\ \E code \in Codes : /\ ls.validator[1] = Validator(code, ls.salt[1])
                          /\ key = deriveKey(code, ls.salt[1])
  /\ \A i \in DOMAIN meta :
       /\ IsEncryptedRecord(meta[i])
       /\ Opens(key, meta[i].iv, meta[i].cipherText)
  /\ mg.pc = "idle" /\ sv.pc = "idle" /\ idsv.pc = "idle"
UserLocks ==
  /\ ~gate.isLocked
  /\ gate.encryptionSalt # None
  /\ lockApp
  /\ hist.calls < MaxCalls
  /\ hist' = [Forget(hist) EXCEPT !.calls = @ + 1, !.locked = TRUE,
                !.lock = IF EncryptedUnderPasscode(currentCryptoKey)
                         THEN Some([stage |-> "locked", stores |-> stores,
                                    list |-> getAllEntries(meta, currentCryptoKey),
                                    hidden |-> None])
                         ELSE None]
PersistedWrong(code) ==
  \/ ls.salt = None
  \/ ls.validator = None
  \/ Validator(code, ls.salt[1]) # ls.validator[1]
UserUnlocks ==
  /\ gate.isLocked
  /\ hist.calls < MaxCalls
  /\ \E code \in Codes :
       /\ handleUnlock(code)
       /\ hist' = [hist EXCEPT
            !.calls = @ + 1, !.saved = None, !.erased = FALSE,
            !.attempt = IF flow'.unlock = None THEN None
                        ELSE Some([code |-> code, wrong |-> PersistedWrong(code)]),
            !.unlock = IF flow'.unlock # None THEN None
                       ELSE Some([code |-> code, returned |-> FALSE,
                                  wrong |-> PersistedWrong(code)])]
UnlockResumes ==
  /\ handleUnlockResumed
  /\ hist' = [Forget(hist) EXCEPT
       !.attempt = None, !.cut = hist.cut,
       !.relocked = @ /\ ~handleUnlockReturns(flow.unlock[1]),
       !.unlock = Some([code |-> flow.unlock[1].code,
                        returned |-> handleUnlockReturns(flow.unlock[1]),
                        wrong |-> hist.attempt[1].wrong]),
       !.lock = IF hist.lock # None /\ UnlockMatches(flow.unlock[1])
                THEN Some([hist.lock[1] EXCEPT !.stage = "unlocked",
                                               !.hidden = hist.view])
                ELSE hist.lock]
AppReload ==
  /\ Reload
  /\ hist.calls < MaxCalls
  /\ hist' = [Forget(hist) EXCEPT !.calls = @ + 1, !.before = None,
                !.attempt = None,
                !.reloaded = Some([key |-> currentCryptoKey]),
                !.relocked = ls.salt # None /\ ls.validator # None,
                !.cut = IF mg.by = "flow" /\ mg.pc \notin {"idle", "done", "failed"}
                        THEN Some(mg.kind) ELSE None,
                !.set = IF hist.set # None /\ hist.set[1].done THEN hist.set
                        ELSE None]
NextApp ==
  \/ ReadAll
  \/ UserSetsPasscode
  \/ UserRemovesPasscode
  \/ FlowEnds
  \/ UserLocks
  \/ UserUnlocks
  \/ UnlockResumes
  \/ AppReload
  \/ MigrateSteps
  \/ SaveSteps
  \/ IdentitySteps
SpecApp == Init /\ [][NextApp]_vars

\* The application with its journal: the settings and the lock screen as
\* above, and the user recording entries and deleting them from their cards.
UserRecords ==
  /\ hist.calls < MaxCalls
  /\ \E id \in Ids :
       /\ processNewEntry(id)
       /\ hist' = [Forget(hist) EXCEPT !.calls = @ + 1,
                                       !.recorded = @ \cup {id}]
\* a step of processNewEntry: the entry of a saveEntry that has resolved is
\* remembered when its await returns
PneStep ==
  hist' = [Forget(hist) EXCEPT
             !.stored = IF PneReturned(sv) /\ sv.pc = "resolved"
                        THEN @ \cup {sv.entry} ELSE @]
LoadsEntries ==
  /\ loadEntries
  /\ hist' = [Forget(hist) EXCEPT !.recorded = {}, !.stored = {}]
UserDeletes ==
  /\ hist.calls < MaxCalls
  /\ \E n \in 1..MaxEntries :
       /\ handleDelete(n)
       /\ hist' = [Forget(hist) EXCEPT !.calls = @ + 1,
                     !.deleted = Some([id |-> flow.entries[n].id,
                                       what |-> "entry", stores |-> stores])]
PneSteps ==
  \/ PneTempSave /\ PneStep
  \/ PneTempSaved /\ PneStep
  \/ PneAnalyzed /\ PneStep
  \/ PneFinalSaved /\ PneStep
  \/ PneErrorSaved /\ PneStep
NextJournal ==
  \/ NextApp
  \/ LoadsEntries
  \/ UserRecords
  \/ PneSteps
  \/ UserDeletes
SpecJournal == Init /\ [][NextJournal]_vars

\* ------------------------------------- the operations from openDB onwards
\* Every store operation begins with `const db = await openDB()`. No passcode
\* is set here, so an operation that gets its connection runs in one task.
StoreOperations ==
  {"saveEntry", "getAllEntries", "getEntryAudio", "getEntryImage",
   "deleteEntry", "deleteEntryImage"}
OperationArgs(op) ==
  IF op = "saveEntry"
    THEN { << entry, blobs >> : entry \in EntryInputs, blobs \in BlobInputs }
  ELSE IF op = "getAllEntries" THEN { << >> }
  ELSE IF op \in {"getEntryAudio", "deleteEntry"} THEN { << id >> : id \in Ids }
  ELSE { << id, kind >> : id \in Ids, kind \in ImageKinds }
\* the operation is called: indexedDB.open(DB_NAME, DB_VERSION), lines 20-21
OpenCall ==
  /\ idb.pc = "idle"
  /\ \E op \in StoreOperations : \E args \in OperationArgs(op) :
       idb' = [idb EXCEPT !.pc = "opening", !.op = op, !.args = args,
                          !.result = None]
  /\ hist' = [hist EXCEPT !.atOpen = Some(stores)]
  /\ UNCHANGED << stores, currentCryptoKey, sv, idsv, mg, ls, gate, flow, crypt, retry >>
\* request.onsuccess (lines 37-39): openDB resolves with the connection
OpenSuccess ==
  /\ idb.pc = "opening" /\ idb.can = "success"
  /\ idb' = [idb EXCEPT !.pc = "opened"]
  /\ UNCHANGED << stores, currentCryptoKey, sv, idsv, mg, ls, gate, flow, crypt, retry, hist >>
\* request.onerror (lines 45-47): openDB rejects, `await openDB()` throws in
\* the operation, whose promise rejects with the open error
OpenError ==
  /\ idb.pc = "opening" /\ idb.can = "error"
  /\ idb' = [idb EXCEPT !.pc = "rejected", !.result = Some("openError")]
  /\ UNCHANGED << stores, currentCryptoKey, sv, idsv, mg, ls, gate, flow, crypt, retry, hist >>
\* request.onblocked (lines 41-43): console.warn and nothing else, the
\* promise of openDB is neither resolved nor rejected
OpenBlocked ==
  /\ idb.pc = "opening" /\ idb.can = "blocked"
  /\ idb' = [idb EXCEPT !.pc = "blocked"]
  /\ UNCHANGED << stores, currentCryptoKey, sv, idsv, mg, ls, gate, flow, crypt, retry, hist >>
\* the connection that held the older version closes: the upgrade goes on
\* and the request will succeed
OtherConnectionCloses ==
  /\ idb.pc = "blocked"
  /\ idb' = [idb EXCEPT !.pc = "opening", !.can = "success"]
  /\ UNCHANGED << stores, currentCryptoKey, sv, idsv, mg, ls, gate, flow, crypt, retry, hist >>
\* The operation past `await openDB()`, with the connection. A read resolves
\* with what it finds; saveEntry, deleteEntry and deleteEntryImage create a
\* readwrite transaction, make their requests and set transaction.oncomplete
\* and transaction.onerror (lines 124-125, 290-291, 309-310).
OperationRuns ==
  /\ idb.pc = "opened"
  /\ LET a == idb.args IN
     \/ /\ idb.op \in {"saveEntry", "deleteEntry", "deleteEntryImage"}
        /\ idb' = [idb EXCEPT !.pc = "active"]
     \/ /\ idb.op = "getAllEntries"
        /\ idb' = [idb EXCEPT !.pc = "resolved",
                     !.result = Some(getAllEntries(meta, currentCryptoKey))]
     \/ /\ idb.op = "getEntryAudio"
        /\ idb' = [idb EXCEPT !.pc = "resolved",
                     !.result = Some(getEntryAudio(audio, a[1], currentCryptoKey))]
     \/ /\ idb.op = "getEntryImage"
        /\ idb' = [idb EXCEPT !.pc = "resolved",
                     !.result = Some(getEntryImage(images, a[1], a[2],
                                                   currentCryptoKey))]
  /\ UNCHANGED << stores, currentCryptoKey, sv, idsv, mg, ls, gate, flow, crypt, retry, hist >>
\* the transaction commits: its puts and deletes become durable together and
\* the complete event runs oncomplete, which resolves
TxComplete ==
  /\ idb.pc = "active"
  /\ LET a == idb.args IN
     \/ /\ idb.op = "saveEntry"
        /\ Commit(SaveBegun(a[1], a[2], "caller", currentCryptoKey, 1))
     \/ /\ idb.op = "deleteEntry"
        /\ meta' = Delete(meta, {a[1]})
        /\ audio' = Delete(audio, {a[1]})
        /\ images' = Delete(images, {ImageKey(a[1], "snapshot"),
                                     ImageKey(a[1], "art")})
     \/ /\ idb.op = "deleteEntryImage"
        /\ images' = Delete(images, {ImageKey(a[1], a[2])})
        /\ UNCHANGED << meta, audio >>
  /\ idb' = [idb EXCEPT !.pc = "resolved"]
  /\ UNCHANGED << currentCryptoKey, sv, idsv, mg, ls, gate, flow, crypt, retry, hist >>
\* a request of the transaction fails: its error event bubbles to the
\* transaction, onerror rejects with transaction.error, and the transaction
\* aborts with nothing written
TxError ==
  /\ idb.pc = "active"
  /\ idb' = [idb EXCEPT !.pc = "rejected", !.result = Some("transactionError")]
  /\ UNCHANGED << stores, currentCryptoKey, sv, idsv, mg, ls, gate, flow, crypt, retry, hist >>
\* the transaction aborts with no request failing (the commit exceeds the
\* quota or fails on the disk, the connection is closed): the engine fires
\* abort at the transaction and no error event. Nothing is written, and no
\* onabort handler is set.
TxAbort ==
  /\ idb.pc = "active"
  /\ idb' = [idb EXCEPT !.pc = "aborted"]
  /\ UNCHANGED << stores, currentCryptoKey, sv, idsv, mg, ls, gate, flow, crypt, retry, hist >>
\* the caller has the outcome of the operation
OperationReturn ==
  /\ idb.pc \in {"resolved", "rejected"}
  /\ idb' = [idb EXCEPT !.pc = "idle", !.op = "none", !.args = << >>,
                        !.result = None]
  /\ hist' = [hist EXCEPT !.atOpen = None]
  /\ UNCHANGED << stores, currentCryptoKey, sv, idsv, mg, ls, gate, flow, crypt, retry >>
\* the state after construction, with the database as the first open finds it
InitOpen ==
  /\ \E ms \in SUBSET Ids : \E as \in SUBSET ms : \E withIdentity \in BOOLEAN :
       PlainCorpus(ms, as, as, as, withIdentity)
  /\ currentCryptoKey = NoKey
  /\ sv = SvIdle
  /\ idsv = IdIdle
  /\ mg = MgIdle
  /\ ls = Unconfigured
  /\ gate = [isLocked |-> FALSE, encryptionSalt |-> None, passcodeValidator |-> None]
  /\ flow = FlowIdle
  /\ \E can \in {"success", "error", "blocked"} :
       idb = [IdbReady EXCEPT !.can = can]
  /\ crypt = CryptIdle
  /\ retry = RetryIdle
  /\ hist = HistInit
NextOpen ==
  \/ OpenCall
  \/ OpenSuccess
  \/ OpenError
  \/ OpenBlocked
  \/ OtherConnectionCloses
  \/ OperationRuns
  \/ TxComplete
  \/ TxError
  \/ TxAbort
  \/ OperationReturn
SpecOpen == InitOpen /\ [][NextOpen]_vars
\* Events whose handlers are set are delivered, the operation resumes when
\* its await settles and the caller takes its outcome. Nothing makes another
\* connection close.
SpecOpenFair ==
  /\ SpecOpen
  /\ WF_vars(OpenSuccess \/ OpenError \/ OpenBlocked)
  /\ WF_vars(OperationRuns)
  /\ WF_vars(TxComplete \/ TxError \/ TxAbort)
  /\ WF_vars(OperationReturn)

\* ------------------------------------------- cryptoService.ts on its own
\* the values a caller encrypts: objects with any of the sensitive
\* properties defined, and byte buffers
JsonInputs ==
  { Pick(e, S) : e \in {TempEntry(1), FinalEntry(1)},
                 S \in SUBSET SensitiveFields }
BufferInputs == {"", "a", "s", "g", "me"}
\* encryptData(key, data) returns (part_002 36-52)
CryptEncryptData ==
  /\ crypt.pc = "idle"
  /\ \E key \in Keys, data \in JsonInputs, iv \in IVs :
       crypt' = [CryptIdle EXCEPT !.pc = "encrypted", !.kind = "data",
                                  !.key = key, !.input = data,
                                  !.out = encryptData(key, data, iv)]
  /\ UNCHANGED << stores, currentCryptoKey, sv, idsv, mg, ls, gate, flow, idb,
                  retry, hist >>
\* encryptBuffer(key, buffer) returns (part_002 74-83)
CryptEncryptBuffer ==
  /\ crypt.pc = "idle"
  /\ \E key \in Keys, buffer \in BufferInputs, iv \in IVs :
       crypt' = [CryptIdle EXCEPT !.pc = "encrypted", !.kind = "buffer",
                                  !.key = key, !.input = buffer,
                                  !.out = encryptBuffer(key, buffer, iv)]
  /\ UNCHANGED << stores, currentCryptoKey, sv, idsv, mg, ls, gate, flow, idb,
                  retry, hist >>
\* decryptData / decryptBuffer of what came out, with some key: the call
\* throws, or returns a value (part_002 55-71, 86-94)
CryptDecrypt ==
  /\ crypt.pc = "encrypted"
  /\ \E key \in Keys :
       LET r == crypt.out IN
       crypt' = [crypt EXCEPT
         !.pc = "decrypted", !.with = key,
         !.result =
            IF decryptFails(key, r.iv, r.content)
              THEN [threw |-> TRUE, value |-> << >>]
            ELSE IF crypt.kind = "data"
              THEN [threw |-> FALSE,
                    value |-> Some(decryptData(key, r.iv, r.content))]
            ELSE [threw |-> FALSE,
                  value |-> Some(decryptBuffer(key, r.iv, r.content))]]
  /\ UNCHANGED << stores, currentCryptoKey, sv, idsv, mg, ls, gate, flow, idb,
                  retry, hist >>
\* the caller goes on to its next call
CryptReturn ==
  /\ crypt.pc = "decrypted"
  /\ crypt' = CryptIdle
  /\ UNCHANGED << stores, currentCryptoKey, sv, idsv, mg, ls, gate, flow, idb,
                  retry, hist >>
InitCrypto ==
  /\ meta = << >> /\ audio = << >> /\ images = << >>
  /\ currentCryptoKey = NoKey
  /\ sv = SvIdle
  /\ idsv = IdIdle
  /\ mg = MgIdle
  /\ ls = Unconfigured
  /\ gate = [isLocked |-> FALSE, encryptionSalt |-> None, passcodeValidator |-> None]
  /\ flow = FlowIdle
  /\ idb = IdbReady
  /\ crypt = CryptIdle
  /\ retry = RetryIdle
  /\ hist = HistInit
NextCrypto ==
  \/ CryptEncryptData
  \/ CryptEncryptBuffer
  \/ CryptDecrypt
  \/ CryptReturn
SpecCrypto == InitCrypto /\ [][NextCrypto]_vars

\* ------------------------------------ retryWithBackoff (part_003, index.js)
\* the largest maxRetries a caller passes, and the initial delays (ms); the
\* one call in the repository passes neither and gets 3 and 1000
MaxRetries == 3
InitialDelays == {250, 1000}
\* what fn resolves with
FnValues == {"response", "other"}
\* strings are sequences of characters
Str503 == << "5", "0", "3" >>
StrOverloaded == << "o", "v", "e", "r", "l", "o", "a", "d", "e", "d" >>
StrUNAVAILABLE == << "U", "N", "A", "V", "A", "I", "L", "A", "B", "L", "E" >>
\* the messages of the errors fn rejects with
FnMessages ==
  { Str503,
    << "[" >> \o Str503 \o << "]" >>,
    << "i", "s", " " >> \o StrOverloaded,
    StrUNAVAILABLE,
    << "U", "n", "a", "v", "a", "i", "l", "a", "b", "l", "e" >>,
    << "4", "2", "9" >>,
    << >> }
\* what fn rejects with: undefined, an object without a message, an Error
FnErrors ==
  {None, Some([message |-> None])}
    \cup {Some([message |-> Some(m)]) : m \in FnMessages}
\* String.prototype.includes
includes(message, needle) ==
  \E i \in 0..(Len(message) - Len(needle)) :
    SubSeq(message, i + 1, i + Len(needle)) = needle
\* error?.message?.includes('503') || ...('overloaded') || ...('UNAVAILABLE')
\* (part_003 22-24, index.js 23-25)
is503(error) ==
  /\ error # None
  /\ error[1].message # None
  /\ \/ includes(error[1].message[1], Str503)
     \/ includes(error[1].message[1], StrOverloaded)
     \/ includes(error[1].message[1], StrUNAVAILABLE)
\* Math.pow(2, attempt)
RECURSIVE Pow2(_)
Pow2(n) == IF n = 0 THEN 1 ELSE 2 * Pow2(n - 1)
\* a backoff that does not grow
delayFixed(initialDelay, attempt) == initialDelay
\* const delay = initialDelay * Math.pow(2, attempt) (part_003 27)
delay(initialDelay, attempt) == initialDelay * Pow2(attempt)
\* the test of the for loop, and `throw lastError` after it (part_003 15, 38)
LoopTest(r) ==
  IF r.attempt < r.maxRetries
    THEN [r EXCEPT !.pc = "calling"]
    ELSE [r EXCEPT !.pc = "threw", !.thrown = r.lastError]
\* retryWithBackoff(fn, maxRetries, initialDelay) is called and reaches its
\* first `await fn()`
RetryCall ==
  /\ retry.pc = "idle"
  /\ \E maxRetries \in 0..MaxRetries, initialDelay \in InitialDelays :
       retry' = LoopTest([RetryIdle EXCEPT !.maxRetries = maxRetries,
                                           !.initialDelay = initialDelay])
  /\ UNCHANGED << stores, currentCryptoKey, sv, idsv, mg, ls, gate, flow, idb,
                  crypt, hist >>
\* fn() resolves: `return await fn()` (part_003 17)
FnResolves ==
  /\ retry.pc = "calling"
  /\ \E v \in FnValues :
       retry' = [retry EXCEPT
         !.pc = "returned", !.result = Some(v),
         !.outcomes = Append(@, [ok |-> TRUE, value |-> Some(v),
                                 error |-> None])]
  /\ UNCHANGED << stores, currentCryptoKey, sv, idsv, mg, ls, gate, flow, idb,
                  crypt, hist >>
\* fn() rejects: the catch block sets the timer or throws (part_003 18-35)
FnRejects ==
  /\ retry.pc = "calling"
  /\ \E error \in FnErrors :
       LET r == [retry EXCEPT
                   !.lastError = error,
                   !.outcomes = Append(@, [ok |-> FALSE, value |-> None,
                                           error |-> error])]
       IN  retry' =
             IF is503(error) /\ retry.attempt < retry.maxRetries - 1
               THEN [r EXCEPT
                       !.pc = "sleeping",
                       !.delays =
                          Append(@, delay(retry.initialDelay, retry.attempt))]
               ELSE [r EXCEPT !.pc = "threw", !.thrown = error]
  /\ UNCHANGED << stores, currentCryptoKey, sv, idsv, mg, ls, gate, flow, idb,
                  crypt, hist >>
\* the timer fires: `continue`, attempt++, the loop test, the next fn()
TimerFires ==
  /\ retry.pc = "sleeping"
  /\ retry' = LoopTest([retry EXCEPT !.attempt = @ + 1])
  /\ UNCHANGED << stores, currentCryptoKey, sv, idsv, mg, ls, gate, flow, idb,
                  crypt, hist >>
\* the caller takes the value or the error
RetryReturn ==
  /\ retry.pc \in {"returned", "threw"}
  /\ retry' = RetryIdle
  /\ UNCHANGED << stores, currentCryptoKey, sv, idsv, mg, ls, gate, flow, idb,
                  crypt, hist >>
NextRetry ==
  \/ RetryCall
  \/ FnResolves
  \/ FnRejects
  \/ TimerFires
  \/ RetryReturn
SpecRetry == InitCrypto /\ [][NextRetry]_vars

\* ================================================================ claims
\* a.f === b.f for every non-attachment field of JournalEntry
EntryEq(a, b) == \A f \in EntryFields : FieldEq(a, b, f)
ListEq(a, b) ==
  /\ Len(a) = Len(b)
  /\ \A n \in 1..Len(a) : n <= Len(b) => EntryEq(a[n], b[n])
AnyRecordEncrypted ==
  \/ \E i \in DOMAIN meta : IsEncryptedRecord(meta[i])
  \/ \E i \in DOMAIN audio : ~IsBlob(audio[i])
  \/ \E k \in DOMAIN images : ~IsBlob(images[k])
AnyRecordPlain ==
  \/ \E i \in DOMAIN meta : ~IsEncryptedRecord(meta[i])
  \/ \E i \in DOMAIN audio : IsBlob(audio[i])
  \/ \E k \in DOMAIN images : IsBlob(images[k])

\* C1 (checked under SpecMigration). Migration round trip: from a corpus in
\* the clear, migrateToEncrypted(k) and then migrateToPlain(k), both returning
\* normally and with no other writer, leave a corpus whose entries
\* (getAllEntries) and attachments (getEntryAudio, getEntryImage,
\* getUserIdentityImage) read back equal to the original ones, field for field.
RoundTripDone ==
  /\ mg.pc = "idle"
  /\ \E k \in Keys :
       hist.trail = << [kind |-> "encrypt", key |-> k, result |-> "done"],
                       [kind |-> "plain", key |-> k, result |-> "done"] >>
C1_MigrationRoundTrip ==
  RoundTripDone =>
    /\ ListEq(getAllEntries(meta, currentCryptoKey),
              getAllEntries(hist.orig[1], NoKey))
    /\ \A id \in Ids :
         /\ getEntryAudio(audio, id, currentCryptoKey)
              = getEntryAudio(hist.orig[2], id, NoKey)
         /\ \A kind \in ImageKinds :
              getEntryImage(images, id, kind, currentCryptoKey)
                = getEntryImage(hist.orig[3], id, kind, NoKey)
    /\ getUserIdentityImage(images, currentCryptoKey)
         = getUserIdentityImage(hist.orig[3], NoKey)

\* C2 (checked under Spec). Encryption is transparent: a saveEntry(e) that
\* resolved, followed by getAllEntries() with the key that was set when the
\* save began, returns for e.id an entry whose non-attachment fields equal
\* those of e.
C2_SaveThenReadTransparent ==
  (hist.saved # None /\ hist.view # None
     /\ hist.saved[1].key = currentCryptoKey) =>
    \E n \in 1..Len(hist.view[1]) :
      /\ hist.view[1][n].id = hist.saved[1].entry.id
      /\ EntryEq(hist.view[1][n], hist.saved[1].entry)

\* C3 (checked under SpecMigration). In every reachable state, the states
\* inside a migration and after a failed one included, the records of the
\* three collections are all encrypted or all in the clear.
C3_UniformEncryptionState == ~(AnyRecordEncrypted /\ AnyRecordPlain)

\* C4 (checked under SpecApp). Whenever updatePasscodeConfig(null) erases the
\* salt and the validator, a migration to plaintext has completed before it:
\* in the state that results no record of any collection is tagged encrypted.
C4_ErasedOnlyWhenPlain == hist.erased => ~AnyRecordEncrypted

\* C5 (checked under SpecApp). When the migrateToPlain of the remove-passcode
\* flow has completed, the sensitive fields of every stored entry equal their
\* decrypted values from before the flow: no record was overwritten with a
\* placeholder.
C5_RemoveKeepsContent ==
  (flow.pc = "removing" /\ mg.pc = "done" /\ hist.before # None) =>
    \A i \in DOMAIN hist.before[1] :
      /\ i \in DOMAIN meta
      /\ \A f \in SensitiveFields : FieldEq(meta[i], hist.before[1][i], f)

\* C6 (checked under SpecApp). With every entry encrypted under the key of
\* the configured passcode: after lock(), getAllEntries() returns one
\* 'Encrypted Entry' placeholder per entry; after a following unlock with the
\* right code it returns the list it returned before the lock; the stored
\* records stay as they were throughout.
AllHidden(list) ==
  /\ Len(list) = Cardinality(DOMAIN meta)
  /\ \A n \in 1..Len(list) :
       /\ list[n].title = "Encrypted Entry"
       /\ DOMAIN list[n] \cap {"summary", "location", "prompt"} = {}
C6_LockHidesUnlockRestores ==
  hist.lock # None =>
    /\ stores = hist.lock[1].stores
    /\ hist.lock[1].hidden # None => AllHidden(hist.lock[1].hidden[1])
    /\ hist.view # None =>
         IF hist.lock[1].stage = "locked"
         THEN AllHidden(hist.view[1])
         ELSE hist.view[1] = hist.lock[1].list
C6_Witness ==
  /\ hist.lock # None /\ hist.view # None
  /\ hist.lock[1].stage = "unlocked"
  /\ hist.lock[1].hidden # None
  /\ Len(hist.view[1]) >= 2
  /\ hist.view[1][1].title = "Sea"

\* C7 (checked under Spec). The writes of one saveEntry and the deletes of
\* one deleteEntry commit together: a step of a saveEntry in flight changes no
\* collection, the step that settles it makes every put of the call visible
\* at once, and a metadata row never disappears without the audio and image
\* rows of its id.
InFlight(r) == r.pc \in {"encrypt", "buffer", "encryptBlob"}
Settled(r) == r.pc \in {"resolved", "rejected"}
PutsVisible(r, m, a, im) ==
  /\ r.tx.meta # None =>
       r.entry.id \in DOMAIN m /\ m[r.entry.id] = r.tx.meta[1]
  /\ r.tx.audio # None =>
       r.entry.id \in DOMAIN a /\ a[r.entry.id] = r.tx.audio[1]
  /\ \A kind \in ImageKinds :
       r.tx[kind] # None =>
         /\ ImageKey(r.entry.id, kind) \in DOMAIN im
         /\ im[ImageKey(r.entry.id, kind)] = r.tx[kind][1]
C7_SaveAndDeleteAtomic ==
  [][ /\ (sv' # sv /\ InFlight(sv')) => stores' = stores
      /\ (sv' # sv /\ Settled(sv')) => PutsVisible(sv', meta', audio', images')
      /\ \A id \in Ids :
           (id \in DOMAIN meta /\ id \notin DOMAIN meta') =>
             /\ id \notin DOMAIN audio'
             /\ \A kind \in ImageKinds : ImageKey(id, kind) \notin DOMAIN images'
    ]_vars
C7_Witness ==
  /\ sv.pc = "resolved" /\ sv.key0 # NoKey
  /\ sv.tx.audio # None /\ sv.tx.art # None
  /\ ~IsBlob(sv.tx.art[1])

\* C8 (checked under Spec). A saveEntry uses one key for the whole call: the
\* metadata record and every attachment it wrote are under the key that was
\* set when it began (all encrypted under it, or all in the clear if none).
RowUnder(row, key) ==
  IF key = NoKey THEN IsBlob(row) ELSE ~IsBlob(row) /\ row.data.k = key
C8_OneKeyPerSave ==
  sv.pc = "resolved" =>
    /\ IF sv.key0 = NoKey THEN sv.tx.meta[1] = sv.entry
       ELSE /\ IsEncryptedRecord(sv.tx.meta[1])
            /\ sv.tx.meta[1].cipherText.k = sv.key0
    /\ \A s \in {"audio", "snapshot", "art"} :
         sv.tx[s] # None => RowUnder(sv.tx[s][1], sv.key0)

\* C9 (checked under SpecMigration). A metadata record carries isEncrypted =
\* true exactly if its sensitive payload is stored as ciphertext only (iv and
\* cipherText, no sensitive field in the clear beside them).
CiphertextOnly(r) ==
  /\ Has(r, "iv") /\ Has(r, "cipherText")
  /\ DOMAIN r \cap SensitiveFields = {}
C9_TagMatchesPayload ==
  \A i \in DOMAIN meta : IsEncryptedRecord(meta[i]) <=> CiphertextOnly(meta[i])

\* C10 (checked under Spec). With a key set and N metadata records stored,
\* some of which do not decrypt under it, getAllEntries returns N entries,
\* one per stored id: a record that fails to decrypt appears as a 'Locked
\* Memory' placeholder with its own id and createdAt, every other record
\* appears with its own content.
FailsToDecrypt(item, key) ==
  /\ IsEncryptedRecord(item)
  /\ ~Has(item, "iv") \/ ~Has(item, "cipherText")
       \/ ~Opens(key, item.iv, item.cipherText)
C10_CorruptionContained ==
  (hist.view # None /\ currentCryptoKey # NoKey) =>
    /\ Len(hist.view[1]) = Cardinality(DOMAIN meta)
    /\ \A i \in DOMAIN meta :
         \E n \in 1..Len(hist.view[1]) :
           LET e == hist.view[1][n] IN
           /\ e.id = i
           /\ e.createdAt = meta[i].createdAt
           /\ IF FailsToDecrypt(meta[i], currentCryptoKey)
              THEN e.title = "Locked Memory"
              ELSE EntryEq(e, TrueContent(meta[i]))
C10_Witness ==
  /\ hist.view # None /\ currentCryptoKey # NoKey
  /\ \E n, m \in 1..Len(hist.view[1]) :
       /\ hist.view[1][n].title = "Locked Memory"
       /\ hist.view[1][m].title = "Sea"
       /\ FailsToDecrypt(meta[hist.view[1][n].id], currentCryptoKey)

\* C11 (checked under SpecApp). handleUnlock with a code whose hash with the
\* persisted salt is not the persisted validator, or with no salt or
\* validator configured, returns false, leaves the gate locked and the key
\* as it was (none after a lock), and changes neither the salt, the
\* validator nor any stored record.
C11_WrongUnlockRejected ==
  [][ (hist.unlock = None /\ hist'.unlock # None /\ hist'.unlock[1].wrong) =>
        /\ hist'.unlock[1].returned = FALSE
        /\ gate.isLocked /\ gate' = gate
        /\ currentCryptoKey' = currentCryptoKey
        /\ ls' = ls
        /\ stores' = stores
    ]_vars
C11_Witness ==
  /\ hist.unlock # None
  /\ hist.unlock[1].returned = FALSE
  /\ gate.isLocked /\ currentCryptoKey = NoKey
  /\ ls.salt # None
  /\ \E i \in DOMAIN meta : IsEncryptedRecord(meta[i])

\* C12 (checked under SpecApp). A key that is set as the active key of the
\* store is the key of the passcode that is persisted: the key derived from
\* a code and the persisted salt, the code being one whose hash with that
\* salt is the persisted validator.
KeyOfPersistedPasscode(key) ==
  /\ ls.salt # None /\ ls.validator # None
  /\ \E code \in Codes :
       /\ Validator(code, ls.salt[1]) = ls.validator[1]
       /\ key = deriveKey(code, ls.salt[1])
C12_KeyOnlyOfPersistedPasscode ==
  currentCryptoKey # NoKey => KeyOfPersistedPasscode(currentCryptoKey)

\* C13 (checked under SpecApp). When the migrateToEncrypted of a set-passcode
\* flow returns, the salt and the validator of the code are persisted and
\* the key derived from the code and that salt is the active key. Once the
\* flow has completed, a handleUnlock with the same code, after a lock or a
\* reload, returns true, opens the gate and installs that key, under which
\* every record encrypted with it decrypts.
SetFlowMigrated ==
  /\ flow.pc = "setting" /\ hist.set # None
  /\ mg.pc # "done" /\ mg'.pc = "done"
UnlockAfterSet ==
  /\ hist.set # None /\ hist.set[1].done
  /\ hist.unlock = None /\ hist'.unlock # None
  /\ hist'.unlock[1].code = hist.set[1].code
C13_SetThenUnlock ==
  [][ /\ SetFlowMigrated =>
           /\ ls'.salt # None /\ ls'.validator # None
           /\ ls'.validator[1] = Validator(hist.set[1].code, ls'.salt[1])
           /\ hist.set[1].key = deriveKey(hist.set[1].code, ls'.salt[1])
           /\ currentCryptoKey' = hist.set[1].key
      /\ UnlockAfterSet =>
           /\ hist'.unlock[1].returned
           /\ ~gate'.isLocked
           /\ currentCryptoKey' = hist.set[1].key
           /\ \A i \in DOMAIN meta' :
                (IsEncryptedRecord(meta'[i])
                   /\ meta'[i].cipherText.k = hist.set[1].key
                   /\ meta'[i].cipherText.ok)
                  => Opens(currentCryptoKey', meta'[i].iv, meta'[i].cipherText)
    ]_vars
C13_Witness ==
  /\ hist.set # None /\ hist.set[1].done
  /\ hist.unlock # None /\ hist.unlock[1].returned
  /\ hist.unlock[1].code = hist.set[1].code
  /\ currentCryptoKey = hist.set[1].key
  /\ \E i \in DOMAIN meta : IsEncryptedRecord(meta[i])

\* C14 (checked under Spec). When deleteEntry(a) has completed, whatever
\* saveEntry stored for a before, getEntryAudio(a), getEntryImage(a,
\* 'snapshot') and getEntryImage(a, 'art') return nothing and getAllEntries
\* holds no entry with id a, with a key set and with none.
AbsentFor(id, key) ==
  /\ getEntryAudio(audio, id, key) = None
  /\ \A kind \in ImageKinds : getEntryImage(images, id, kind, key) = None
  /\ \A n \in 1..Len(getAllEntries(meta, key)) :
       getAllEntries(meta, key)[n].id # id
EntryDeleted == hist.deleted # None /\ hist.deleted[1].what = "entry"
C14_DeletedReadsAbsent ==
  EntryDeleted =>
    /\ AbsentFor(hist.deleted[1].id, currentCryptoKey)
    /\ \A key \in Keys \cup {NoKey} : AbsentFor(hist.deleted[1].id, key)
C14_Witness ==
  /\ EntryDeleted
  /\ currentCryptoKey # NoKey
  /\ LET id == hist.deleted[1].id
         before == hist.deleted[1].stores
     IN /\ id \in DOMAIN before[1] /\ IsEncryptedRecord(before[1][id])
        /\ id \in DOMAIN before[2] /\ ~IsBlob(before[2][id])
        /\ \A kind \in ImageKinds :
             /\ ImageKey(id, kind) \in DOMAIN before[3]
             /\ ~IsBlob(before[3][ImageKey(id, kind)])

\* C15 (checked under Spec). deleteEntry(id) for an id with no row in any
\* collection leaves the three collections as they were; for an id with
\* rows it leaves every row of every other id, and the identity image,
\* as they were.
OwnKeys(id) == {ImageKey(id, kind) : kind \in ImageKinds}
SameExcept(before, after, keys) ==
  /\ DOMAIN after \subseteq DOMAIN before
  /\ \A k \in DOMAIN before \ keys : k \in DOMAIN after /\ after[k] = before[k]
C15_DeleteFrame ==
  EntryDeleted =>
    LET id == hist.deleted[1].id
        before == hist.deleted[1].stores
    IN /\ SameExcept(before[1], meta, {id})
       /\ SameExcept(before[2], audio, {id})
       /\ SameExcept(before[3], images, OwnKeys(id))
       /\ (id \notin DOMAIN before[1] /\ id \notin DOMAIN before[2]
             /\ OwnKeys(id) \cap DOMAIN before[3] = {})
            => stores = before
C15_Witness ==
  /\ EntryDeleted
  /\ hist.deleted[1].id \in DOMAIN hist.deleted[1].stores[1]
  /\ hist.deleted[1].id \in DOMAIN hist.deleted[1].stores[2]
  /\ \E j \in Ids \ {hist.deleted[1].id} :
       /\ j \in DOMAIN meta /\ j \in DOMAIN audio
       /\ OwnKeys(j) \subseteq DOMAIN images
  /\ IDENTITY_KEY \in DOMAIN images

\* C16 (checked under Spec). deleteEntryImage(id, kind) removes the image
\* row of that id and kind and nothing else: the metadata record and the
\* audio row of id, its image of the other kind and every row of other ids
\* stay as they were.
ImageDeleted == hist.deleted # None /\ hist.deleted[1].what \in ImageKinds
C16_DeleteImageFrame ==
  ImageDeleted =>
    LET key == ImageKey(hist.deleted[1].id, hist.deleted[1].what)
        before == hist.deleted[1].stores
    IN /\ meta = before[1]
       /\ audio = before[2]
       /\ key \notin DOMAIN images
       /\ SameExcept(before[3], images, {key})
C16_Witness ==
  /\ ImageDeleted
  /\ hist.deleted[1].id \in DOMAIN meta
  /\ hist.deleted[1].id \in DOMAIN audio
  /\ ImageKey(hist.deleted[1].id, hist.deleted[1].what)
       \in DOMAIN hist.deleted[1].stores[3]
  /\ \E other \in ImageKinds \ {hist.deleted[1].what} :
       ImageKey(hist.deleted[1].id, other) \in DOMAIN images
  /\ IDENTITY_KEY \in DOMAIN images

\* x.createdAt >= y.createdAt as the program's numbers compare: false as soon
\* as one side is NaN
GreaterOrEqual(x, y) == ~isNaN(x) /\ ~isNaN(y) /\ x >= y
OrderedDesc(list) ==
  \A n \in 1..(Len(list) - 1) :
    GreaterOrEqual(list[n].createdAt, list[n + 1].createdAt)
OnePerRecord(list, store) ==
  /\ Len(list) = Cardinality(DOMAIN store)
  /\ \A i \in DOMAIN store :
       Cardinality({n \in 1..Len(list) : list[n].id = i}) = 1
\* C17: for every store content and key state, the list getAllEntries returns
\* is ordered by createdAt descending (each entry's createdAt >= the next
\* one's) and holds exactly one entry per stored metadata record.
C17_SortedOnePerRecord ==
  /\ OrderedDesc(getAllEntries(meta, currentCryptoKey))
  /\ OnePerRecord(getAllEntries(meta, currentCryptoKey), meta)
\* the part of C17 that does not depend on the values of createdAt
C17_OnePerRecord == OnePerRecord(getAllEntries(meta, currentCryptoKey), meta)
\* the ordering when every stored createdAt is a number
C17_OrderedWhenNumbers ==
  (\A i \in DOMAIN meta : ~isNaN(meta[i].createdAt))
    => OrderedDesc(getAllEntries(meta, currentCryptoKey))

\* the row was sealed under this key and its iv and has not changed since
SealedUnder(row, key) ==
  row.data.ok /\ row.data.k = key /\ row.data.n = row.iv
\* the five outcomes of a blob read, told apart by the row and the key alone
BlobReadCase(store, k, key, got) ==
  IF k \notin DOMAIN store THEN got = None
  ELSE IF ~Has(store[k], "isEncrypted") THEN got = Some(store[k])
  ELSE IF key = NoKey THEN got = None
  ELSE IF ~SealedUnder(store[k], key) THEN got = None
  ELSE /\ got # None
       /\ got[1].data = store[k].data.pt
       /\ got[1].type \in {"audio/webm", "image/jpeg", store[k].type}
\* C18: getEntryAudio and getEntryImage settle with a value whatever the row
\* holds: absent when there is no row, absent when the row is encrypted and no
\* key is active, absent when the active key does not decrypt it, the stored
\* blob itself when the row is plaintext, the decrypted blob when the row is
\* encrypted under the active key.
C18_BlobReadCases ==
  \A id \in Ids :
    /\ BlobReadCase(audio, id, currentCryptoKey,
                    getEntryAudio(audio, id, currentCryptoKey))
    /\ \A kind \in ImageKinds :
         BlobReadCase(images, ImageKey(id, kind), currentCryptoKey,
                      getEntryImage(images, id, kind, currentCryptoKey))
\* a key is active; one row is plaintext, one is encrypted under the active
\* key and one is encrypted under another key
C18_Witness ==
  /\ currentCryptoKey # NoKey
  /\ \E i \in Ids, kind \in ImageKinds :
       /\ ImageKey(i, kind) \in DOMAIN images
       /\ ~Has(images[ImageKey(i, kind)], "isEncrypted")
       /\ getEntryImage(images, i, kind, currentCryptoKey)
            = Some(images[ImageKey(i, kind)])
  /\ \E i \in DOMAIN audio :
       /\ Has(audio[i], "isEncrypted")
       /\ ~SealedUnder(audio[i], currentCryptoKey)
       /\ getEntryAudio(audio, i, currentCryptoKey) = None
  /\ \E i \in Ids, kind \in ImageKinds :
       /\ ImageKey(i, kind) \in DOMAIN images
       /\ Has(images[ImageKey(i, kind)], "isEncrypted")
       /\ SealedUnder(images[ImageKey(i, kind)], currentCryptoKey)
       /\ getEntryImage(images, i, kind, currentCryptoKey) # None
\* no key is active, a row is encrypted and another is missing: both reads
\* are absent
C18_LockedRow ==
  /\ currentCryptoKey = NoKey
  /\ \E i \in Ids : getEntryAudio(audio, i, currentCryptoKey) = None
                       /\ i \notin DOMAIN audio
  /\ \E i \in DOMAIN audio :
       Has(audio[i], "isEncrypted")
         /\ getEntryAudio(audio, i, currentCryptoKey) = None

\* the record is what a save of entry e stores with this key: e itself with
\* no key; with a key the envelope fields of e and a ciphertext that opens
\* under the key to the sensitive fields of e, and nothing else
RecordOf(rec, e, key) ==
  IF key = NoKey THEN rec = e
  ELSE /\ DOMAIN rec = (DOMAIN e \cap EnvelopeFields)
                         \cup {"isEncrypted", "iv", "cipherText"}
       /\ rec.isEncrypted
       /\ \A f \in EnvelopeFields : FieldEq(rec, e, f)
       /\ Opens(key, rec.iv, rec.cipherText)
       /\ \A f \in SensitiveFields :
            FieldEq(decryptData(key, rec.iv, rec.cipherText), e, f)
\* the step in which a saveEntry call completes
SaveCompletes == sv.pc # "resolved" /\ sv'.pc = "resolved"
\* C19: upsert. Each saveEntry call that completes leaves the metadata
\* collection with exactly one record for the entry's id, the record of the
\* entry it was passed, and with the records of all other ids as they were;
\* so after any sequence of completed calls each id has one record, that of
\* the last call for it.
C19_Upsert ==
  [][ SaveCompletes =>
        /\ DOMAIN meta' = DOMAIN meta \cup {sv'.entry.id}
        /\ RecordOf(meta'[sv'.entry.id], sv'.entry, sv'.key0)
        /\ \A i \in DOMAIN meta \ {sv'.entry.id} : meta'[i] = meta[i]
    ]_vars
\* a save with a key has just completed over a record that was stored in the
\* clear with other content, next to the record of another id
C19_Witness ==
  /\ sv.pc = "resolved"
  /\ sv.key0 # NoKey
  /\ sv.entry.id \in DOMAIN hist.orig[1]
  /\ ~EntryEq(hist.orig[1][sv.entry.id], sv.entry)
  /\ RecordOf(meta[sv.entry.id], sv.entry, sv.key0)
  /\ \E i \in DOMAIN meta : i # sv.entry.id
\* the same with no key
C19_PlainOverwrite ==
  /\ sv.pc = "resolved"
  /\ sv.key0 = NoKey
  /\ sv.entry.id \in DOMAIN hist.orig[1]
  /\ hist.orig[1][sv.entry.id] # sv.entry
  /\ meta[sv.entry.id] = sv.entry
  /\ \E i \in DOMAIN meta : i # sv.entry.id

\* the row of one kind of attachment of an entry, if there is one
BlobRow(a, im, id, kind) ==
  IF kind = "audio" THEN (IF id \in DOMAIN a THEN Some(a[id]) ELSE None)
  ELSE IF ImageKey(id, kind) \in DOMAIN im THEN Some(im[ImageKey(id, kind)])
  ELSE None
\* C20: a saveEntry(e) in which the attachment of some kind is absent leaves
\* the stored row of that kind for e.id as it was, at every step of the call:
\* it neither deletes nor rewrites it.
C20_AbsentBlobUntouched ==
  [][ (sv' # sv /\ sv'.pc # "idle") =>
        \A n \in 1..Len(Stages) :
          sv'.blobs[Stages[n]] = None =>
            BlobRow(audio', images', sv'.entry.id, Stages[n])
              = BlobRow(audio, images, sv'.entry.id, Stages[n])
    ]_vars
\* a save with a key and a snapshot only has completed for an entry whose
\* audio and art were stored in the clear: record and snapshot are rewritten,
\* audio and art are the rows that were there
C20_Witness ==
  /\ sv.pc = "resolved"
  /\ sv.key0 # NoKey
  /\ sv.blobs.audio = None /\ sv.blobs.art = None /\ sv.blobs.snapshot # None
  /\ IsEncryptedRecord(meta[sv.entry.id])
  /\ ~IsBlob(images[ImageKey(sv.entry.id, "snapshot")])
  /\ sv.entry.id \in DOMAIN hist.orig[2]
  /\ BlobRow(audio, images, sv.entry.id, "audio")
       = Some(hist.orig[2][sv.entry.id])
  /\ BlobRow(audio, images, sv.entry.id, "art")
       = BlobRow(hist.orig[2], hist.orig[3], sv.entry.id, "art")
\* a save of the metadata alone, with no key, over an entry with three rows
C20_MetadataOnly ==
  /\ sv.pc = "resolved"
  /\ sv.key0 = NoKey
  /\ sv.blobs = NoBlobs
  /\ sv.entry.id \in DOMAIN hist.orig[1]
  /\ meta[sv.entry.id] # hist.orig[1][sv.entry.id]
  /\ \A n \in 1..Len(Stages) :
       /\ BlobRow(audio, images, sv.entry.id, Stages[n]) # None
       /\ BlobRow(audio, images, sv.entry.id, Stages[n])
            = BlobRow(hist.orig[2], hist.orig[3], sv.entry.id, Stages[n])

\* C21: lockApp sets the active key to none and the gate to Locked, and
\* leaves the persisted salt, the persisted validator and every record of the
\* three collections as they were.
C21_LockFrame ==
  [][ (hist'.locked /\ ~hist.locked) =>
        /\ currentCryptoKey' = NoKey
        /\ gate'.isLocked
        /\ ls' = ls
        /\ stores' = stores
    ]_vars
\* the lock of an unlocked application with a passcode persisted, a key active
\* and an encrypted corpus
C21_Witness ==
  /\ hist.locked
  /\ hist.lock # None
  /\ ls.salt # None /\ ls.validator # None
  /\ currentCryptoKey = NoKey /\ gate.isLocked
  /\ meta # << >> /\ \A i \in DOMAIN meta : IsEncryptedRecord(meta[i])

\* C22: the key does not outlive the page. Right after a reload the active
\* key is none, and the gate is Locked if a salt and a validator are
\* persisted; from then on no key is active until a handleUnlock has
\* returned true.
C22_ReloadRelocks ==
  /\ hist.reloaded # None =>
       /\ currentCryptoKey = NoKey
       /\ (ls.salt # None /\ ls.validator # None) => gate.isLocked
  /\ hist.relocked => (currentCryptoKey = NoKey /\ gate.isLocked)
\* a reload in a state with a passcode persisted and a key active
C22_Witness ==
  /\ hist.reloaded # None
  /\ hist.reloaded[1].key # NoKey
  /\ hist.relocked
  /\ currentCryptoKey = NoKey /\ gate.isLocked
\* after such a reload a handleUnlock returned false and the key is still none
C22_StillLocked ==
  /\ hist.relocked
  /\ hist.unlock # None /\ ~hist.unlock[1].returned
  /\ currentCryptoKey = NoKey
\* after such a reload a handleUnlock returned true and a key is active
C22_Unlocked ==
  /\ ~hist.relocked
  /\ hist.unlock # None /\ hist.unlock[1].returned
  /\ currentCryptoKey # NoKey
  /\ hist.set # None /\ hist.set[1].done

\* migrateToEncrypted or migrateToPlain has begun and has not returned
MigrationInFlight == mg.pc \notin {"idle", "done", "failed"}
\* C23 (checked under SpecJournal): migrations are serialized against the
\* other writers of the application: while migrateToEncrypted or
\* migrateToPlain is in flight, no saveEntry of processNewEntry is executing
\* and no deleteEntry of an entry card has just run.
C23_MigrationsSerialized ==
  MigrationInFlight => (sv.by # "hook" /\ hist.deleted = None)
\* the same for the delete alone
C23_NoDeleteInMigration == MigrationInFlight => hist.deleted = None

\* the entries of the in-memory list that processNewEntry put there
ListedByHook ==
  { flow.entries[n] : n \in { m \in DOMAIN flow.entries :
                                flow.entries[m].id \in hist.recorded } }
\* C24 (checked under SpecJournal): read-your-writes. An entry that
\* processNewEntry has put in the in-memory list is one whose saveEntry has
\* completed: the list never holds a version whose save has not succeeded.
C24_ListedOnlyAfterSave == ListedByHook \subseteq hist.stored
\* processNewEntry has returned and the list shows an entry that no saveEntry
\* has stored
C24_ShownNeverSaved ==
  ~(flow.pne.pc = "idle" /\ ~(ListedByHook \subseteq hist.stored))
\* processNewEntry has returned with the final entry listed and saved
C24_ListedAndSaved ==
  /\ flow.pne.pc = "idle"
  /\ \E e \in ListedByHook : ~e.isProcessing /\ e.title = "Sea"
  /\ ListedByHook \subseteq hist.stored

\* an operation waits for a database that cannot be opened
OpenCannotSucceed == idb.pc \in {"opening", "blocked"} /\ idb.can # "success"
\* C25 (checked under SpecOpenFair): when the store cannot be opened,
\* including when the open is blocked by another connection that holds an
\* older version, the operation that waits for it eventually fails with the
\* open error surfaced to its caller (unless the store has become openable
\* in the meantime).
C25_OpenFailureSurfaces ==
  OpenCannotSucceed ~> \/ idb.pc = "rejected" /\ idb.result = Some("openError")
                       \/ idb.can = "success"
\* the same for the open that fails with an error event
C25_OpenErrorSurfaces ==
  (idb.pc = "opening" /\ idb.can = "error")
     ~> (idb.pc = "rejected" /\ idb.result = Some("openError"))
\* an operation whose open did not succeed has written nothing
C25_NothingWritten ==
  (idb.pc \in {"opening", "blocked", "rejected"}) =>
     hist.atOpen = Some(stores)
\* a blocked open leaves the operation pending: no handler settles it
C25_BlockedSettles ==
  (idb.pc = "blocked") =>
     ENABLED (OpenSuccess \/ OpenError \/ OpenBlocked \/ OperationRuns)
\* an operation has failed with the open error on a store that holds records
C25_RejectedOnOpenError ==
  /\ idb.pc = "rejected" /\ idb.op = "saveEntry" /\ meta # << >>
  /\ hist.atOpen = Some(stores)

\* the transaction of a saveEntry or deleteEntry has aborted
TxAborted ==
  /\ idb.op \in {"saveEntry", "deleteEntry"}
  /\ \/ idb.pc = "aborted"
     \/ idb.pc = "rejected" /\ idb.result = Some("transactionError")
\* C26 (checked under SpecOpenFair): if the transaction of a saveEntry or
\* deleteEntry aborts, the call's promise rejects: it does not resolve and
\* it does not stay pending.
C26_AbortRejects == TxAborted ~> (idb.pc = "rejected")
\* the finite form: an aborted transaction whose call has not rejected has
\* a step that settles the call
C26_AbortedSettles == (idb.pc = "aborted") => ENABLED OperationReturn
\* none of the writes or deletes of a call whose transaction aborted is
\* committed in any collection
C26_AbortWritesNothing == TxAborted => hist.atOpen = Some(stores)
\* a saveEntry that would have changed the stores has had its transaction
\* aborted
C26_Aborted ==
  /\ idb.pc = "aborted" /\ idb.op = "saveEntry"
  /\ idb.args[1].id \notin DOMAIN meta
\* a request of a deleteEntry of a stored entry has failed and the call has
\* rejected
C26_RejectedOnRequestError ==
  /\ idb.pc = "rejected" /\ idb.op = "deleteEntry"
  /\ idb.result = Some("transactionError")
  /\ idb.args[1] \in DOMAIN meta

\* the migration in flight has returned normally
ReturnedNormally(kind) == mg.pc = "done" /\ mg.kind = kind /\ hist.from # None
\* C27 (checked under SpecMigration): when migrateToEncrypted(k) returns
\* normally from an all-plaintext corpus with no other writer, every record,
\* every audio and image row and the identity photo is tagged encrypted
\* under k and the active key is k; when migrateToPlain(k) returns normally
\* from a corpus fully encrypted under k, every one of them is in the clear
\* and no key is active.
C27_MigrationPostcondition ==
  /\ (ReturnedNormally("encrypt") /\ hist.from[1].plain) =>
       /\ AllEncryptedUnder(meta, audio, images, mg.key)
       /\ currentCryptoKey = mg.key
  /\ (ReturnedNormally("plain") /\ mg.key \in hist.from[1].under) =>
       /\ AllPlain(meta, audio, images)
       /\ currentCryptoKey = NoKey
\* migrateToEncrypted has returned normally on a corpus with a record, its
\* attachments and an identity photo, all of which were in the clear
C27_Witness ==
  /\ ReturnedNormally("encrypt") /\ hist.from[1].plain
  /\ meta # << >> /\ audio # << >> /\ IDENTITY_KEY \in DOMAIN images
\* migrateToPlain has returned normally on such a corpus encrypted under
\* its key
C27_PlainWitness ==
  /\ ReturnedNormally("plain") /\ mg.key \in hist.from[1].under
  /\ meta # << >> /\ audio # << >> /\ IDENTITY_KEY \in DOMAIN images

\* C28 (checked under SpecCrypto): wrong-key safety. decryptData with a key
\* other than the one encryptData was given fails with an error and returns
\* no value, and so does decryptBuffer on the output of encryptBuffer.
C28_WrongKeyFails ==
  (crypt.pc = "decrypted" /\ crypt.with # crypt.key) =>
     (crypt.result.threw /\ crypt.result.value = None)
\* decryptData has been given the output of encryptData and another key
C28_Witness ==
  /\ crypt.pc = "decrypted" /\ crypt.kind = "data"
  /\ crypt.with # crypt.key /\ crypt.result.threw
  /\ DOMAIN crypt.input = SensitiveFields
\* the same for decryptBuffer
C28_BufferWitness ==
  /\ crypt.pc = "decrypted" /\ crypt.kind = "buffer"
  /\ crypt.with # crypt.key /\ crypt.result.threw
  /\ crypt.input = "a"

C29_BufferWitness ==
  /\ crypt.pc = "decrypted" /\ crypt.kind = "buffer"
  /\ crypt.with = crypt.key /\ ~crypt.result.threw
  /\ crypt.input = "me"

\* the encryptions whose output is in the stores: the key and iv of each,
\* with the record or row that holds it
StoredEncryptions ==
  { [k |-> meta[i].cipherText.k, iv |-> meta[i].cipherText.n,
     at |-> << "entries", i >>] :
       i \in { j \in DOMAIN meta : IsEncryptedRecord(meta[j]) } }
  \cup { [k |-> audio[i].data.k, iv |-> audio[i].data.n,
          at |-> << "audio", i >>] :
            i \in { j \in DOMAIN audio : ~IsBlob(audio[j]) } }
  \cup { [k |-> images[i].data.k, iv |-> images[i].data.n,
          at |-> << "images", i >>] :
            i \in { j \in DOMAIN images : ~IsBlob(images[j]) } }
C30_UniqueWithinSave ==
  (sv.pc = "resolved" /\ sv.tx.meta # None /\ sv.tx.audio # None
     /\ IsEncryptedRecord(sv.tx.meta[1]) /\ ~IsBlob(sv.tx.audio[1])
     /\ sv.tx.meta[1].cipherText.k = sv.tx.audio[1].data.k)
  => sv.tx.meta[1].cipherText.n # sv.tx.audio[1].data.n

\* a passcode is configured: salt and validator are persisted
PasscodeConfigured == ls.salt # None /\ ls.validator # None
\* what the saveEntry that has just resolved has put is ciphertext
SavedSealed ==
  /\ sv.tx.meta # None => IsEncryptedRecord(sv.tx.meta[1])
  /\ \A s \in {"audio", "snapshot", "art"} :
       sv.tx[s] # None => ~IsBlob(sv.tx[s][1])
\* C31 (checked under SpecJournal): while a passcode is configured, no
\* saveEntry of the application persists sensitive fields or attachments in
\* plaintext; in particular a save of processNewEntry that starts after
\* lock() adds no plaintext record to the encrypted corpus.
C31_NoPlaintextWhileConfigured ==
  (PasscodeConfigured /\ sv.by = "hook" /\ sv.pc = "resolved") => SavedSealed
\* the case of the lock: no migration is in flight and the gate is locked
C31_SaveAfterLock ==
  (PasscodeConfigured /\ gate.isLocked /\ mg.pc = "idle"
     /\ sv.by = "hook" /\ sv.pc = "resolved") => SavedSealed
\* the final entry of processNewEntry, saved behind the lock screen
C31_FinalSaveAfterLock ==
  ~(PasscodeConfigured /\ gate.isLocked /\ mg.pc = "idle"
      /\ sv.by = "hook" /\ sv.pc = "resolved" /\ ~sv.entry.isProcessing
      /\ ~SavedSealed
      /\ \E i \in DOMAIN meta : IsEncryptedRecord(meta[i]))

\* the entry getAllEntries returns for record i carries its envelope
EnvelopeKept(list, i) ==
  \E n \in DOMAIN list :
     /\ list[n].id = meta[i].id
     /\ \A f \in EnvelopeFields : FieldEq(list[n], meta[i], f)
\* C32 (checked under Spec): for every stored metadata record, the entry
\* getAllEntries() returns for it has id, createdAt and isProcessing equal
\* to the stored envelope fields, whether the record is decrypted, replaced
\* by the 'Locked Memory' placeholder or by the 'Encrypted Entry' one.
C32_EnvelopePreserved ==
  \A i \in DOMAIN meta :
     EnvelopeKept(getAllEntries(meta, currentCryptoKey), i)
\* the same for the records that are decrypted or fail to decrypt
C32_EnvelopeWithKey ==
  currentCryptoKey # NoKey => C32_EnvelopePreserved
\* a record that is still being processed is decrypted
C32_Decrypted ==
  /\ currentCryptoKey # NoKey
  /\ \E i \in DOMAIN meta :
       /\ IsEncryptedRecord(meta[i]) /\ meta[i].isProcessing
       /\ ~FailsToDecrypt(meta[i], currentCryptoKey)
\* such a record fails to decrypt under the key that is set
C32_Locked ==
  /\ currentCryptoKey # NoKey
  /\ \E i \in DOMAIN meta :
       meta[i].isProcessing /\ FailsToDecrypt(meta[i], currentCryptoKey)

\* migrateToEncrypted has completed on the plaintext corpus, and again on
\* the corpus it left, with key k
EncryptedTwice(k) ==
  /\ mg.pc = "idle" /\ Len(hist.trail) = 2
  /\ \A n \in 1..2 : /\ hist.trail[n].kind = "encrypt"
                      /\ hist.trail[n].result = "done"
  /\ hist.trail[2].key = k
\* the entries and audio read under `key` are those of the first corpus
ContentKept(key) ==
  LET list == getAllEntries(meta, key) IN
  \A i \in DOMAIN hist.orig[1] :
     /\ \E n \in DOMAIN list :
          /\ list[n].id = i
          /\ \A f \in SensitiveFields : FieldEq(list[n], hist.orig[1][i], f)
     /\ getEntryAudio(audio, i, key) = getEntryAudio(hist.orig[2], i, NoKey)
\* C33 (checked under SpecMigration): migrateToEncrypted applied to a corpus
\* that already contains encrypted records (a re-keying or a retry) loses no
\* content: after it completes, the sensitive fields and attachments of
\* every entry read back under the new key equal their true plaintext.
C33_RekeyKeepsContent ==
  \A k \in Keys : EncryptedTwice(k) => ContentKept(k)
\* the same for a second migration with the key of the first
C33_RetryKeepsContent ==
  \A k \in Keys :
     (EncryptedTwice(k) /\ hist.trail[1].key = k) => ContentKept(k)
\* the first migration alone keeps the content
C33_FirstKeepsContent ==
  \A k \in Keys :
     (mg.pc = "idle" /\ hist.trail = << [kind |-> "encrypt", key |-> k,
                                         result |-> "done"] >>)
       => ContentKept(k)

\* the keys a successful handleUnlock installs: those of the codes that
\* match the persisted validator
PasscodeKeys ==
  { deriveKey(code, ls.salt[1]) :
      code \in { c \in Codes : ls.validator[1] = Validator(c, ls.salt[1]) } }
\* C34 (checked under SpecApp): an interrupted migration stays readable.
\* If the page is closed at any step of the migrateToEncrypted or
\* migrateToPlain of a settings flow, then after the reload getAllEntries()
\* under the key of the passcode returns the real content of every entry
\* and every audio that existed is retrievable.
C34_InterruptedStaysReadable ==
  (hist.cut # None /\ PasscodeConfigured) =>
     \A key \in PasscodeKeys : ContentKept(key)
\* the same for the migrateToEncrypted of the first handleSetPasscode, on
\* a corpus that no earlier flow has touched
C34_FirstSetInterrupted ==
  (hist.cut = Some("encrypt") /\ hist.calls = 2 /\ PasscodeConfigured) =>
     \A key \in PasscodeKeys : ContentKept(key)
\* handleUnlock has returned true after the reload that cut a
\* migrateToEncrypted short with one record converted and one not
C34_UnlockedAfterCut ==
  /\ hist.cut = Some("encrypt") /\ ~gate.isLocked
  /\ hist.unlock # None /\ hist.unlock[1].returned
  /\ \E i, j \in DOMAIN meta :
       IsEncryptedRecord(meta[i]) /\ ~IsEncryptedRecord(meta[j])
  /\ ContentKept(currentCryptoKey)

\* the migration in flight has failed: its await of a getter or of
\* saveEntry threw, and the error is on its way to the caller
MigrationFailed == mg.pc = "failed" /\ hist.from # None
\* C35 (checked under SpecMigration): if migrateToEncrypted or
\* migrateToPlain fails at any step, the error propagates to the caller and
\* the active key is the key that was active before the migration started.
C35_FailureRestoresKey ==
  MigrationFailed => currentCryptoKey = hist.from[1].key
\* the error of a failed migration reaches the caller: the call returns
\* with the failure and nothing else of the migration runs
C35_FailurePropagates ==
  [][(mg.pc = "failed" /\ mg' # mg) =>
        /\ mg' = MgIdle /\ stores' = stores
        /\ hist'.trail # << >>
        /\ hist'.trail[Len(hist'.trail)].result = "failed"]_vars
\* migrateToEncrypted has failed at the save of its second entry
C35_FailedMidway ==
  /\ MigrationFailed /\ mg.kind = "encrypt" /\ mg.i = 2
  /\ hist.from[1].key = NoKey /\ hist.from[1].plain

\* C36 (checked under SpecApp): in every reachable state the persisted salt
\* and the persisted validator are both present or both absent, and when
\* present the validator is the hash of the passcode last set and the
\* persisted salt; setting and removing the passcode, lock, unlock and
\* reload all preserve this.
C36_SaltAndValidator ==
  /\ (ls.salt = None) <=> (ls.validator = None)
  /\ ls.salt # None =>
       /\ hist.code # None
       /\ ls.validator[1] = Validator(hist.code[1], ls.salt[1])
\* the passcode has been set, the application locked or reloaded, and an
\* unlock has just succeeded
C36_Witness ==
  /\ PasscodeConfigured /\ hist.unlock # None /\ hist.unlock[1].returned
  /\ hist.calls = MaxCalls
\* a passcode has been set and removed again
C36_Removed ==
  hist.code # None /\ ls = Unconfigured /\ flow.pc = "idle" /\ hist.erased

\* processNewEntry returns in this step, its last saveEntry having resolved
\* and the user not having deleted the entry since
PneCompletes ==
  /\ flow.pne.pc \in {"finalSave", "errorSave"}
  /\ flow'.pne.pc = "idle"
  /\ sv.by = "hook" /\ sv.pc = "resolved"
  /\ hist'.reloaded = None
  /\ flow.pne.temp.id \in DOMAIN meta
\* C37 (checked under SpecJournal): a processNewEntry that runs to
\* completion with its saveEntry calls succeeding ends with the hook's
\* isProcessing false and with the persisted record of the new entry
\* marked isProcessing = false, whether analyzeEntry succeeded or failed,
\* and that record has the id of the temporary entry.
C37_ProcessingEnds ==
  [][PneCompletes =>
       LET id == flow.pne.temp.id IN
       /\ ~flow'.isProcessing
       /\ sv.entry.id = id
       /\ id \in DOMAIN meta'
       /\ meta'[id].id = id /\ ~meta'[id].isProcessing]_vars
\* processNewEntry has returned after analyzeEntry failed, the error entry
\* saved
C37_Witness ==
  /\ flow.pne.pc = "idle" /\ ~flow.isProcessing
  /\ \E e \in hist.stored :
       /\ e.title = "Error Processing"
       /\ e.id \in DOMAIN meta /\ meta[e.id] = e
\* processNewEntry has returned with the analysed entry saved encrypted
C37_FinalEncrypted ==
  /\ flow.pne.pc = "idle" /\ ~flow.isProcessing
  /\ \E e \in hist.stored :
       /\ e.title = "Sea" /\ e.id \in DOMAIN meta
       /\ IsEncryptedRecord(meta[e.id]) /\ ~meta[e.id].isProcessing

\* ---------------------------------------------------------------- C38
\* the k-th call of fn failed with an error classified as overload
FailedOverloaded(k) ==
  /\ ~retry.outcomes[k].ok
  /\ is503(retry.outcomes[k].error)
\* C38: retryWithBackoff(fn, maxRetries) calls fn at most maxRetries times;
\* when it returns, it returns the result of the first call that succeeded,
\* which is its last call; every call after the first follows a failure
\* classified as overload (503 / overloaded / UNAVAILABLE) made while attempts
\* remained; when a call fails otherwise, its error is thrown without another
\* wait; and the delay before retry number n is initialDelay * 2^(n-1).
C38_RetryContract ==
  LET calls == Len(retry.outcomes) IN
  /\ calls <= retry.maxRetries
  /\ retry.pc = "returned" =>
       /\ calls >= 1
       /\ retry.outcomes[calls].ok
       /\ retry.result = retry.outcomes[calls].value
       /\ \A k \in 1..(calls - 1) : ~retry.outcomes[k].ok
  /\ \A k \in 2..calls :
       /\ FailedOverloaded(k - 1)
       /\ k - 1 < retry.maxRetries
  /\ (retry.pc = "calling" /\ calls >= 1) =>
       /\ FailedOverloaded(calls)
       /\ calls < retry.maxRetries
  /\ (retry.pc = "threw" /\ calls >= 1) =>
       /\ ~retry.outcomes[calls].ok
       /\ retry.thrown = retry.outcomes[calls].error
       /\ ~FailedOverloaded(calls) \/ calls = retry.maxRetries
       /\ Len(retry.delays) = calls - 1
  /\ Len(retry.delays) <= calls
  /\ \A n \in 1..Len(retry.delays) :
       retry.delays[n] = retry.initialDelay * (2 ^ (n - 1))
\* the third call succeeds after two overload failures, with delays of
\* initialDelay and twice that
C38_Witness ==
  /\ retry.pc = "returned"
  /\ Len(retry.outcomes) = 3
  /\ Len(retry.delays) = 2
\* the last allowed call fails with an overload error too, and it is thrown
C38_GaveUp ==
  /\ retry.pc = "threw"
  /\ retry.maxRetries = 3
  /\ Len(retry.outcomes) = 3
  /\ FailedOverloaded(3)
\* the first call fails with another error while attempts remain
C38_OtherErrorThrown ==
  /\ retry.pc = "threw"
  /\ retry.maxRetries = 3
  /\ Len(retry.outcomes) = 1
  /\ ~FailedOverloaded(1)

====
